---- MODULE Spec2Model ----
(***************************************************************************)
(* Model of the numeric core of the portfolio-optimization repository:     *)
(*   - scripts/optimizer.py and scripts/constraints.py (the two variants   *)
(*     of optimize_portfolio_with_costs around scipy's SLSQP minimizer),   *)
(*   - scripts/metrics.py and src/calculations/metrics.py (VaR, CVaR,      *)
(*     maximum drawdown),                                                  *)
(*   - scripts/simulations.py and src/simulations/monte_carlo.py (the two  *)
(*     Monte Carlo simulation modes).                                      *)
(*                                                                         *)
(* Floating-point values are modelled as extended rationals: a record      *)
(* [n, d] in lowest terms with d >= 0, where d = 0 encodes the IEEE        *)
(* specials (1/0 = +inf, -1/0 = -inf, 0/0 = NaN).  Square roots are taken  *)
(* exactly; the covariance inputs are rank-one matrices, for which every   *)
(* portfolio variance is the square of a rational.                         *)
(***************************************************************************)
EXTENDS Integers, Sequences, FiniteSets, TLC

VARIABLES
    optPc,          \* position of the optimize_portfolio_with_costs call
    optCall,        \* arguments of the call, as the caller passed them
    solverCalled,   \* whether scipy.optimize.minimize has been invoked
    lastEval,       \* the objective evaluation in progress: the point and its value
    solverOut,      \* what the solver returned: result.x, result.success
    optResult,      \* the dictionary returned by the call
    optError,       \* the exception raised by the call
    optWarned,      \* whether "Optimization Warning" was printed
    metCall,        \* the metrics call last made: function and arguments
    metResult,      \* its result
    metAfter,       \* the caller's input objects after the call
    metPrinted,     \* what the call wrote to standard output
    simPc,          \* position of the monte_carlo_simulation call
    simCall,        \* arguments of the simulation call
    simI,           \* loop index of the next trial
    simResults,     \* the result array: one column per trial
    simWritten,     \* columns assigned by the loop so far
    simReturned,    \* the value returned by the simulation call
    simWeights,     \* the weight vector of the latest random-allocation trial
    simDraws,       \* the random numbers drawn by the latest trial
    simError,       \* the exception that ended the simulation call
    fetchCache,     \* the joblib store of get_cached_historical_data: key and value pairs
    fetchCount,     \* number of fetch operations made so far
    fetchLast,      \* the latest fetch operation: arguments, outcome, provider calls made
    pipePc,         \* position in run_monte_carlo_with_visualization
    pipeCall,       \* its arguments
    pipeData,       \* data: what get_cached_historical_data returned
    pipeReturns,    \* returns: the table of returns made from the close prices
    pipeSim,        \* how the call of monte_carlo_with_metrics ended
    pipePlot,       \* the arguments plot_monte_carlo_with_metrics was called with
    pipePrinted,    \* the lines printed so far
    rerunPc,        \* position of the repeated optimizer call: idle, solving, done
    rerunArgs,      \* the caller's arguments (its arrays) as they are now
    rerunSeen,      \* what the solver has seen in this call: the points it asked for and their values
    rerunMoves,     \* the solver as far as it is fixed: what it did after each history
    rerunOutcomes   \* how the calls made so far ended, in order

optVars == <<optPc, optCall, solverCalled, lastEval, solverOut, optResult, optError, optWarned>>
metVars == <<metCall, metResult, metAfter, metPrinted>>
simVars == <<simPc, simCall, simI, simResults, simWritten, simReturned, simWeights, simDraws, simError>>
fetchVars == <<fetchCache, fetchCount, fetchLast>>
pipeVars == <<pipePc, pipeCall, pipeData, pipeReturns, pipeSim, pipePlot, pipePrinted>>
rerunVars == <<rerunPc, rerunArgs, rerunSeen, rerunMoves, rerunOutcomes>>
vars == <<optVars, metVars, simVars, fetchVars, pipeVars, rerunVars>>

(***************************************************************************)
(* Bounds of the model.                                                    *)
(***************************************************************************)
MaxAssets == 4
MaxLen == 4
MaxTrials == 2
MaxHorizon == 2
MaxRows == 3
MaxFetches == 3
MaxDefaultAssets == 21
MaxReruns == 2
MaxEvals == 2

(***************************************************************************)
(* Extended rational arithmetic (IEEE-754 semantics for inf and NaN).      *)
(***************************************************************************)
Sign(x) == IF x > 0 THEN 1 ELSE IF x < 0 THEN -1 ELSE 0

Abs(x) == IF x < 0 THEN -x ELSE x

RECURSIVE GCD(_, _)
GCD(a, b) == IF b = 0 THEN a ELSE GCD(b, a % b)

Q(n, d) ==
    IF d = 0 THEN [n |-> Sign(n), d |-> 0]
    ELSE LET g == GCD(Abs(n), Abs(d))
             s == IF d < 0 THEN -1 ELSE 1
         IN [n |-> (s * n) \div g, d |-> (s * d) \div g]

NaN == Q(0, 0)
PosInf == Q(1, 0)
NegInf == Q(-1, 0)
Zero == Q(0, 1)
Unit == Q(1, 1)

IsNaN(a) == a.d = 0 /\ a.n = 0

IsFinite(a) == a.d # 0

RNeg(a) == [n |-> -a.n, d |-> a.d]

RAbs(a) == [n |-> Abs(a.n), d |-> a.d]

RAdd(a, b) ==
    IF a.d = 0 /\ b.d = 0 THEN (IF a.n = b.n THEN a ELSE NaN)
    ELSE IF a.d = 0 THEN a
    ELSE IF b.d = 0 THEN b
    ELSE LET g == GCD(a.d, b.d)
         IN Q(a.n * (b.d \div g) + b.n * (a.d \div g), (a.d \div g) * b.d)

RSub(a, b) == RAdd(a, RNeg(b))

RMul(a, b) ==
    IF a.d = 0 \/ b.d = 0 THEN Q(a.n * b.n, 0)
    ELSE LET g == GCD(Abs(a.n), b.d)
             h == GCD(Abs(b.n), a.d)
         IN Q((a.n \div g) * (b.n \div h), (a.d \div h) * (b.d \div g))

RDiv(a, b) ==
    IF b.d = 0 THEN (IF b.n = 0 \/ a.d = 0 THEN NaN ELSE Zero)
    ELSE IF b.n = 0 \/ a.d = 0 THEN Q(IF b.n < 0 THEN -a.n ELSE a.n, 0)
    ELSE RMul(a, [n |-> Sign(b.n) * b.d, d |-> Abs(b.n)])

\* a <= b; every comparison with NaN is false
RLeq(a, b) ==
    IF IsNaN(a) \/ IsNaN(b) THEN FALSE
    ELSE IF a.d = 0 /\ b.d = 0 THEN a.n <= b.n
    ELSE IF a.d = 0 THEN a.n < 0
    ELSE IF b.d = 0 THEN b.n > 0
    ELSE LET g == GCD(a.d, b.d)
         IN a.n * (b.d \div g) <= b.n * (a.d \div g)

RLt(a, b) == RLeq(a, b) /\ a # b

\* np.maximum / np.minimum: NaN propagates
RMax(a, b) == IF IsNaN(a) THEN a ELSE IF IsNaN(b) THEN b ELSE IF RLeq(a, b) THEN b ELSE a

RMin(a, b) == IF IsNaN(a) THEN a ELSE IF IsNaN(b) THEN b ELSE IF RLeq(a, b) THEN a ELSE b

\* np.clip(x, lo, hi) = minimum(maximum(x, lo), hi)
RClip(x, lo, hi) == RMin(RMax(x, lo), hi)

RECURSIVE SqrtSearch(_, _, _)
SqrtSearch(x, lo, hi) ==
    IF lo >= hi THEN lo
    ELSE LET mid == (lo + hi + 1) \div 2
         IN IF mid * mid <= x THEN SqrtSearch(x, mid, hi) ELSE SqrtSearch(x, lo, mid - 1)

ISqrt(x) == SqrtSearch(x, 0, IF x < 40000 THEN x ELSE 40000)

\* np.sqrt: NaN for a negative argument
RSqrt(a) ==
    IF IsNaN(a) \/ a.n < 0 THEN NaN
    ELSE IF a.d = 0 THEN PosInf
    ELSE Q(ISqrt(a.n), ISqrt(a.d))

(***************************************************************************)
(* Vectors (sequences of rationals) and matrices (sequences of rows).      *)
(***************************************************************************)
None == << >>
Some(x) == << x >>

RECURSIVE SumTo(_, _)
SumTo(v, k) == IF k = 0 THEN Zero ELSE RAdd(SumTo(v, k - 1), v[k])

\* np.sum
VecSum(v) == SumTo(v, Len(v))

\* np.dot of two vectors
Dot(u, v) == VecSum([i \in 1..Len(u) |-> RMul(u[i], v[i])])

\* np.dot(matrix, vector)
MatVec(m, v) == [i \in 1..Len(m) |-> Dot(m[i], v)]

\* np.any(np.isnan(v)) for a vector, and for a matrix
AnyNaN(v) == \E i \in 1..Len(v) : IsNaN(v[i])

AnyNaNMatrix(m) == \E i \in 1..Len(m) : AnyNaN(m[i])

\* np.clip(v, lows, highs), elementwise
VecClip(v, lows, highs) == [i \in 1..Len(v) |-> RClip(v[i], lows[i], highs[i])]

Const(n, a) == [i \in 1..n |-> a]

PatternVec(n, a, b) == [i \in 1..n |-> IF i = 1 THEN a ELSE b]

\* np.ones(num_assets) / num_assets
EqualWeights(n) == Const(n, Q(1, n))

(***************************************************************************)
(* scripts/optimizer.py and scripts/constraints.py                         *)
(***************************************************************************)

\* calculate_sharpe_ratio: the NEGATIVE Sharpe ratio (the same text in both files)
calculate_sharpe_ratio(weights, annualized_returns, covariance_matrix, risk_free_rate) ==
    LET portfolio_return == Dot(weights, annualized_returns)
        portfolio_volatility == RSqrt(Dot(weights, MatVec(covariance_matrix, weights)))
        sharpe_ratio == RDiv(RSub(portfolio_return, risk_free_rate), portfolio_volatility)
    IN RNeg(sharpe_ratio)

\* variant of AbsTurnoverCost without np.abs: buys and sells cancel
SignedTurnoverCost(weights, initial_weights, transaction_costs) ==
    VecSum([i \in 1..Len(weights) |->
                RMul(RSub(weights[i], initial_weights[i]), transaction_costs[i])])

\* np.sum(np.abs(weights - initial_weights) * transaction_costs)
AbsTurnoverCost(weights, initial_weights, transaction_costs) ==
    VecSum([i \in 1..Len(weights) |->
                RMul(RAbs(RSub(weights[i], initial_weights[i])), transaction_costs[i])])

\* constraints.transaction_cost_penalty: imported by scripts/constraints.py, defined nowhere
transaction_cost_penalty(weights, initial_weights, transaction_costs) ==
    AbsTurnoverCost(weights, initial_weights, transaction_costs)

\* variant of validate_inputs without the NaN check on the transaction costs
validate_inputs_skips_cost_nan(annualized_returns, covariance_matrix, initial_weights, transaction_costs) ==
    IF AnyNaN(annualized_returns) THEN "Annualized returns contain NaN values."
    ELSE IF AnyNaNMatrix(covariance_matrix) THEN "Covariance matrix contains NaN values."
    ELSE IF AnyNaN(initial_weights) THEN "Initial weights contain NaN values."
    ELSE IF Len(annualized_returns) # Len(transaction_costs)
         THEN "Mismatch between annualized_returns and transaction_costs dimensions."
    ELSE "ok"

\* optimizer.validate_inputs: the message of the ValueError raised, or "ok"
validate_inputs(annualized_returns, covariance_matrix, initial_weights, transaction_costs) ==
    IF AnyNaN(annualized_returns) THEN "Annualized returns contain NaN values."
    ELSE IF AnyNaNMatrix(covariance_matrix) THEN "Covariance matrix contains NaN values."
    ELSE IF AnyNaN(initial_weights) THEN "Initial weights contain NaN values."
    ELSE IF AnyNaN(transaction_costs) THEN "Transaction costs contain NaN values."
    ELSE IF Len(annualized_returns) # Len(transaction_costs)
         THEN "Mismatch between annualized_returns and transaction_costs dimensions."
    ELSE "ok"

\* constraints.validate_inputs: imported by scripts/constraints.py, defined nowhere
constraints_validate_inputs(annualized_returns, covariance_matrix, initial_weights, transaction_costs) ==
    IF AnyNaN(annualized_returns) \/ AnyNaNMatrix(covariance_matrix)
       \/ AnyNaN(initial_weights) \/ AnyNaN(transaction_costs)
       \/ Len(annualized_returns) # Len(transaction_costs)
    THEN "invalid input" ELSE "ok"

\* variant of optimizer_default_bounds without the 5% floor
optimizer_default_bounds_no_floor(num_assets) == Const(num_assets, <<Zero, Q(30, 100)>>)

\* default bounds of scripts/optimizer.py: 5% to 30% per asset
optimizer_default_bounds(num_assets) == Const(num_assets, <<Q(5, 100), Q(30, 100)>>)

\* default bounds of scripts/constraints.py: 0% to 100% per asset
constraints_default_bounds(num_assets) == Const(num_assets, <<Zero, Unit>>)

\* the defaults both variants apply to the optional arguments
default_initial_weights(args) ==
    IF args.initial_weights = None
    THEN EqualWeights(Len(args.annualized_returns))
    ELSE args.initial_weights[1]

default_transaction_costs(args) ==
    IF args.transaction_costs = None
    THEN Const(Len(args.annualized_returns), Zero)
    ELSE args.transaction_costs[1]

effective_bounds(args) ==
    IF args.bounds # None THEN args.bounds[1]
    ELSE IF args.variant = "optimizer"
         THEN optimizer_default_bounds(Len(args.annualized_returns))
         ELSE constraints_default_bounds(Len(args.annualized_returns))

Lows(bounds) == [i \in 1..Len(bounds) |-> bounds[i][1]]
Highs(bounds) == [i \in 1..Len(bounds) |-> bounds[i][2]]

\* the nested objective(weights) of optimizer.optimize_portfolio_with_costs
optimizer_objective(weights, args) ==
    LET portfolio_return == Dot(weights, args.annualized_returns)
        portfolio_volatility ==
            RSqrt(Dot(weights, MatVec(args.covariance_matrix, weights)))
        sharpe_ratio == RDiv(RSub(portfolio_return, args.risk_free_rate), portfolio_volatility)
        cost_penalty ==
            AbsTurnoverCost(weights, default_initial_weights(args), default_transaction_costs(args))
    IN RAdd(RNeg(sharpe_ratio), cost_penalty)

\* constraints.calculate_objective_with_costs: clips the weights to [0.05, 0.3] first
calculate_objective_with_costs(weights, annualized_returns, covariance_matrix, initial_weights, transaction_costs, risk_free_rate) ==
    LET clipped == VecClip(weights, Const(Len(weights), Q(5, 100)), Const(Len(weights), Q(30, 100)))
        sharpe_ratio ==
            calculate_sharpe_ratio(clipped, annualized_returns, covariance_matrix, risk_free_rate)
        transaction_cost_penalty_value ==
            transaction_cost_penalty(clipped, initial_weights, transaction_costs)
    IN RAdd(sharpe_ratio, transaction_cost_penalty_value)

\* the nested objective(weights) of constraints.optimize_portfolio_with_costs
constraints_objective(weights, args) ==
    calculate_objective_with_costs(weights, args.annualized_returns, args.covariance_matrix,
                                   default_initial_weights(args), default_transaction_costs(args),
                                   args.risk_free_rate)

objective(weights, args) ==
    IF args.variant = "optimizer" THEN optimizer_objective(weights, args)
    ELSE constraints_objective(weights, args)

\* the validation either variant runs before it calls the solver
entry_check(args) ==
    IF args.variant = "optimizer"
    THEN validate_inputs(args.annualized_returns, args.covariance_matrix,
                         default_initial_weights(args), default_transaction_costs(args))
    ELSE constraints_validate_inputs(args.annualized_returns, args.covariance_matrix,
                         default_initial_weights(args), default_transaction_costs(args))

\* variant of optimizer_finish that warns and returns whatever the solver gave
optimizer_finish_warns(args, x, success) ==
    LET bounds == effective_bounds(args)
        optimal_weights == VecClip(x, Lows(bounds), Highs(bounds))
    IN [kind |-> "returned", error |-> "none", warned |-> ~success,
        result |-> Some([weights |-> optimal_weights,
                         sharpe_ratio |-> RNeg(optimizer_objective(optimal_weights, args)),
                         transaction_cost_penalty |->
                             AbsTurnoverCost(optimal_weights, default_initial_weights(args),
                                             default_transaction_costs(args)),
                         success |-> success])]

\* optimizer.py after minimize(): raise on non-convergence, else build the result
optimizer_finish(args, x, success) ==
    IF ~success
    THEN [kind |-> "raised", error |-> "ValueError", warned |-> FALSE, result |-> None]
    ELSE LET bounds == effective_bounds(args)
             optimal_weights == VecClip(x, Lows(bounds), Highs(bounds))
             final_sharpe_ratio == RNeg(optimizer_objective(optimal_weights, args))
             final_cost_penalty ==
                 AbsTurnoverCost(optimal_weights, default_initial_weights(args),
                                 default_transaction_costs(args))
         IN [kind |-> "returned", error |-> "none", warned |-> FALSE,
             result |-> Some([weights |-> optimal_weights,
                              sharpe_ratio |-> final_sharpe_ratio,
                              transaction_cost_penalty |-> final_cost_penalty,
                              success |-> success])]

\* constraints.py after minimize(): print a warning on non-convergence, build the result
constraints_finish(args, x, success) ==
    LET bounds == effective_bounds(args)
        optimal_weights == VecClip(x, Lows(bounds), Highs(bounds))
        final_sharpe_ratio ==
            RNeg(calculate_sharpe_ratio(optimal_weights, args.annualized_returns,
                                        args.covariance_matrix, args.risk_free_rate))
        final_cost_penalty ==
            transaction_cost_penalty(optimal_weights, default_initial_weights(args),
                                     default_transaction_costs(args))
    IN [kind |-> "returned", error |-> "none", warned |-> ~success,
        result |-> Some([weights |-> optimal_weights,
                         sharpe_ratio |-> final_sharpe_ratio,
                         transaction_cost_penalty |-> final_cost_penalty,
                         success |-> success])]

finish(args, x, success) ==
    IF args.variant = "optimizer" THEN optimizer_finish(args, x, success)
    ELSE constraints_finish(args, x, success)

(***************************************************************************)
(* Inputs of the optimizer runs.                                           *)
(***************************************************************************)
AssetCounts == 2..MaxAssets

WeightGrid == {Q(k, 60) : k \in {0, 3, 14, 15, 18, 30, 60}}

\* the points the solver may evaluate or return
Candidates(n) == {PatternVec(n, a, b) : a, b \in WeightGrid} \cup {EqualWeights(n)}

ReturnsChoices(n) ==
    {PatternVec(n, Q(4, 100), Q(10, 100)), Const(n, Q(10, 100)), PatternVec(n, NaN, Q(10, 100))}

\* covariance of perfectly correlated assets with volatilities s: s[i] * s[j]
RankOne(s) == [i \in 1..Len(s) |-> [j \in 1..Len(s) |-> RMul(s[i], s[j])]]

VolChoices(n) ==
    {PatternVec(n, Q(10, 100), Q(30, 100)), Const(n, Zero), PatternVec(n, NaN, Q(20, 100))}

CovChoices(n) == {RankOne(s) : s \in VolChoices(n)}

InitChoices(n) ==
    {None, Some(PatternVec(n, Unit, Zero)), Some(PatternVec(n, NaN, Zero))}

CostChoices(n) ==
    {None, Some(PatternVec(n, Q(2, 100), Q(1, 100))), Some(PatternVec(n, NaN, Q(1, 100))),
     Some(PatternVec(n - 1, Q(2, 100), Q(1, 100)))}

BoundsChoices(n) ==
    {None, Some(constraints_default_bounds(n)), Some(optimizer_default_bounds(n))}

\* the risk-free rates of the calls: a rate no candidate's portfolio return
\* equals, so that with a zero covariance the Sharpe ratio is x / 0 with x # 0
\* (at x = 0 the sign float64 rounding leaves on x decides between inf, -inf
\* and NaN, which exact arithmetic does not reproduce)
RateChoices == {Q(3, 125)}

OptArgs ==
    UNION {[variant : {"optimizer", "constraints"},
            annualized_returns : ReturnsChoices(n),
            covariance_matrix : CovChoices(n),
            initial_weights : InitChoices(n),
            transaction_costs : CostChoices(n),
            risk_free_rate : RateChoices,
            bounds : BoundsChoices(n)] : n \in AssetCounts}

\* calls of scripts/optimizer.py that leave bounds to the default, for 1 to
\* MaxDefaultAssets assets
DefaultBoundsArgs ==
    UNION {[variant : {"optimizer"},
            annualized_returns : {PatternVec(n, Q(4, 100), Q(10, 100)), Const(n, Q(10, 100))},
            covariance_matrix : {RankOne(PatternVec(n, Q(10, 100), Q(30, 100)))},
            initial_weights : {None, Some(PatternVec(n, Unit, Zero))},
            transaction_costs : {None},
            risk_free_rate : {Q(2, 100)},
            bounds : {None}] : n \in 1..MaxDefaultAssets}

\* a point that meets the sum-to-1 constraint and the bounds
Feasible(x, bounds) ==
    /\ VecSum(x) = Unit
    /\ \A i \in 1..Len(x) : RLeq(bounds[i][1], x[i]) /\ RLeq(x[i], bounds[i][2])

(***************************************************************************)
(* The optimizer call as a state machine.                                  *)
(***************************************************************************)
OptInit ==
    /\ optPc = "idle"
    /\ optCall = None
    /\ solverCalled = FALSE
    /\ lastEval = None
    /\ solverOut = None
    /\ optResult = None
    /\ optError = "none"
    /\ optWarned = FALSE

\* optimize_portfolio_with_costs(...) up to the call of minimize()
OptimizeCall ==
    /\ optPc = "idle"
    /\ \E args \in OptArgs :
        /\ optCall' = Some(args)
        /\ IF entry_check(args) = "ok"
           THEN /\ optPc' = "solving"
                /\ solverCalled' = TRUE
                /\ optError' = "none"
           ELSE /\ optPc' = "raised"
                /\ solverCalled' = FALSE
                /\ optError' = "ValueError"
    /\ UNCHANGED <<lastEval, solverOut, optResult, optWarned>>

\* optimize_portfolio_with_costs(returns, covariance) of scripts/optimizer.py
\* with bounds=None, up to the call of minimize()
OptimizeDefaultBoundsCall ==
    /\ optPc = "idle"
    /\ \E args \in DefaultBoundsArgs :
        /\ optCall' = Some(args)
        /\ IF entry_check(args) = "ok"
           THEN /\ optPc' = "solving"
                /\ solverCalled' = TRUE
                /\ optError' = "none"
           ELSE /\ optPc' = "raised"
                /\ solverCalled' = FALSE
                /\ optError' = "ValueError"
    /\ UNCHANGED <<lastEval, solverOut, optResult, optWarned>>

\* SLSQP calls objective(weights) at a point of its choice
SolverEvaluate ==
    /\ optPc = "solving"
    /\ \E w \in Candidates(Len(default_initial_weights(optCall[1]))) :
        lastEval' = Some([weights |-> w, value |-> objective(w, optCall[1])])
    /\ optPc' = "in_objective"
    /\ UNCHANGED <<optCall, solverCalled, solverOut, optResult, optError, optWarned>>

\* objective(weights) hands its value back to SLSQP
ObjectiveReturn ==
    /\ optPc = "in_objective"
    /\ optPc' = "solving"
    /\ lastEval' = None
    /\ UNCHANGED <<optCall, solverCalled, solverOut, optResult, optError, optWarned>>

\* minimize() returns (its callbacks are over); the rest of
\* optimize_portfolio_with_costs runs.  result.success means the returned
\* point meets the sum-to-1 constraint and the bounds.
SolverReturn ==
    /\ optPc = "solving"
    /\ \E x \in Candidates(Len(default_initial_weights(optCall[1]))), success \in BOOLEAN :
        /\ success => Feasible(x, effective_bounds(optCall[1]))
        /\ solverOut' = Some([x |-> x, success |-> success])
        /\ LET out == finish(optCall[1], x, success)
           IN /\ optPc' = out.kind
              /\ optError' = out.error
              /\ optWarned' = out.warned
              /\ optResult' = out.result
    /\ UNCHANGED <<optCall, solverCalled, lastEval>>

(***************************************************************************)
(* scripts/metrics.py and src/calculations/metrics.py                      *)
(***************************************************************************)
RECURSIVE Insert(_, _)
Insert(sorted, x) ==
    IF sorted = << >> THEN << x >>
    ELSE IF RLeq(x, Head(sorted)) THEN << x >> \o sorted
    ELSE << Head(sorted) >> \o Insert(Tail(sorted), x)

RECURSIVE SortTo(_, _)
SortTo(v, k) == IF k = 0 THEN << >> ELSE Insert(SortTo(v, k - 1), v[k])

\* np.sort (ascending)
Sort(v) == SortTo(v, Len(v))

\* int(x) for x >= 0
Floor(a) == a.n \div a.d

\* .mean(): NaN (0/0) for an empty selection
Mean(v) == RDiv(VecSum(v), Q(Len(v), 1))

RECURSIVE AtOrBelow(_, _, _)
\* returns[returns <= var]: the elements among the first k that are <= var, in order
AtOrBelow(returns, var, k) ==
    IF k = 0 THEN << >>
    ELSE IF RLeq(returns[k], var) THEN Append(AtOrBelow(returns, var, k - 1), returns[k])
    ELSE AtOrBelow(returns, var, k - 1)

RECURSIVE DropNaN(_, _)
\* skipna: the elements among the first k that are not NaN, in order
DropNaN(v, k) ==
    IF k = 0 THEN << >>
    ELSE IF ~IsNaN(v[k]) THEN Append(DropNaN(v, k - 1), v[k])
    ELSE DropNaN(v, k - 1)

\* scripts.metrics.calculate_var: the element at index int((1 - c) * n) of the sorted returns
scripts_calculate_var(returns, confidence_level) ==
    LET sorted_returns == Sort(returns)
        var_index == Floor(RMul(RSub(Unit, confidence_level), Q(Len(sorted_returns), 1)))
    IN sorted_returns[var_index + 1]

\* variant of scripts_calculate_cvar that averages the wrong side of the index
scripts_calculate_cvar_upper(returns, confidence_level) ==
    LET sorted_returns == Sort(returns)
        var_index == Floor(RMul(RSub(Unit, confidence_level), Q(Len(sorted_returns), 1)))
    IN Mean(SubSeq(sorted_returns, var_index + 1, Len(sorted_returns)))

\* scripts.metrics.calculate_cvar: the mean of sorted_returns[:var_index]
scripts_calculate_cvar(returns, confidence_level) ==
    LET sorted_returns == Sort(returns)
        var_index == Floor(RMul(RSub(Unit, confidence_level), Q(Len(sorted_returns), 1)))
    IN Mean(SubSeq(sorted_returns, 1, var_index))

\* np.percentile(a, q) with the default linear interpolation, q given as q / 100
Percentile(a, fraction) ==
    IF AnyNaN(a) THEN NaN ELSE
    LET sorted == Sort(a)
        n == Len(sorted)
        virtual_index == RMul(fraction, Q(n - 1, 1))
        lo == Floor(virtual_index)
        hi == IF lo + 1 > n - 1 THEN n - 1 ELSE lo + 1
        gamma == RSub(virtual_index, Q(lo, 1))
    IN RAdd(sorted[lo + 1], RMul(RSub(sorted[hi + 1], sorted[lo + 1]), gamma))

\* calculations.metrics.calculate_var: np.percentile(returns, (1 - c) * 100)
calculations_calculate_var(returns, confidence_level) ==
    Percentile(returns, RSub(Unit, confidence_level))

\* calculations.metrics.calculate_cvar: returns[returns <= var].mean()
calculations_calculate_cvar(returns, confidence_level) ==
    LET var == calculations_calculate_var(returns, confidence_level)
    IN Mean(AtOrBelow(returns, var, Len(returns)))

RECURSIVE CumProd(_, _)
\* .cumprod(): the running product of the first k elements
CumProd(v, k) == IF k = 1 THEN v[1] ELSE RMul(CumProd(v, k - 1), v[k])

RECURSIVE CumMax(_, _)
\* .cummax(): the running maximum of the first k elements
CumMax(v, k) == IF k = 1 THEN v[1] ELSE RMax(CumMax(v, k - 1), v[k])

\* pandas .min(): NaN entries are skipped; NaN when nothing is left
SeriesMin(v) ==
    LET kept == DropNaN(v, Len(v))
    IN IF kept = << >> THEN NaN
       ELSE CHOOSE m \in {kept[i] : i \in 1..Len(kept)} :
                \A i \in 1..Len(kept) : RLeq(m, kept[i])

\* scripts.metrics.calculate_max_drawdown on a series of returns
scripts_calculate_max_drawdown(portfolio_returns) ==
    IF AnyNaN(portfolio_returns)
    THEN [kind |-> "raised", error |-> "ValueError", value |-> NaN]
    ELSE LET n == Len(portfolio_returns)
             growth == [t \in 1..n |-> RAdd(Unit, portfolio_returns[t])]
             cumulative_returns == [t \in 1..n |-> CumProd(growth, t)]
             running_max == [t \in 1..n |-> CumMax(cumulative_returns, t)]
             drawdown == [t \in 1..n |->
                             RSub(RDiv(cumulative_returns[t], running_max[t]), Unit)]
         IN [kind |-> "value", error |-> "none", value |-> SeriesMin(drawdown)]

\* pandas .mean(): NaN entries are skipped; NaN when nothing is left
SeriesMean(v) == Mean(DropNaN(v, Len(v)))

\* the square of pandas .std(): the sample variance (ddof = 1) of the entries
\* that are not NaN; NaN with fewer than two of them
SeriesVariance(v) ==
    LET kept == DropNaN(v, Len(v))
        m == Mean(kept)
    IN IF Len(kept) < 2 THEN NaN
       ELSE RDiv(VecSum([i \in 1..Len(kept) |-> RMul(RSub(kept[i], m), RSub(kept[i], m))]),
                 Q(Len(kept) - 1, 1))

\* pandas .std()
SeriesStd(v) == RSqrt(SeriesVariance(v))

\* the series whose standard deviation is a rational number (or NaN)
HasExactStd(v) ==
    IsNaN(SeriesVariance(v)) \/ RMul(SeriesStd(v), SeriesStd(v)) = SeriesVariance(v)

\* variant of calculations_calculate_sharpe_ratio without the zero-volatility branch
calculations_calculate_sharpe_ratio_unguarded(returns, risk_free_rate) ==
    RDiv(RSub(SeriesMean(returns), risk_free_rate), SeriesStd(returns))

\* calculations.metrics.calculate_sharpe_ratio(returns, risk_free_rate)
calculations_calculate_sharpe_ratio(returns, risk_free_rate) ==
    LET excess_returns == RSub(SeriesMean(returns), risk_free_rate)
        volatility == SeriesStd(returns)
    IN IF volatility # Zero THEN RDiv(excess_returns, volatility) ELSE Zero

\* the call calculate_sharpe_ratio(*args): the function takes at most two
\* positional arguments, a third one is a TypeError
call_calculate_sharpe_ratio(args) ==
    IF Len(args) > 2 THEN [kind |-> "raised", error |-> "TypeError", value |-> NaN]
    ELSE [kind |-> "value", error |-> "none",
          value |-> calculations_calculate_sharpe_ratio(
                        args[1], IF Len(args) = 2 THEN args[2] ELSE Q(1, 100))]

RECURSIVE Above(_, _, _)
\* returns[returns > threshold]: the elements among the first k above the threshold
Above(returns, threshold, k) ==
    IF k = 0 THEN << >>
    ELSE IF RLt(threshold, returns[k]) THEN Append(Above(returns, threshold, k - 1), returns[k])
    ELSE Above(returns, threshold, k - 1)

\* variant of calculations_calculate_omega_ratio that divides the losses by the gains
calculations_calculate_omega_ratio_inverted(returns, threshold) ==
    LET gains == Above(returns, threshold, Len(returns))
        losses == AtOrBelow(returns, threshold, Len(returns))
        excess_gains == [i \in 1..Len(gains) |-> RSub(gains[i], threshold)]
        excess_losses == [i \in 1..Len(losses) |-> RSub(threshold, losses[i])]
    IN IF VecSum(excess_losses) = Zero THEN PosInf
       ELSE RDiv(VecSum(excess_losses), VecSum(excess_gains))

\* calculations.metrics.calculate_omega_ratio(returns, threshold)
calculations_calculate_omega_ratio(returns, threshold) ==
    LET gains == Above(returns, threshold, Len(returns))
        losses == AtOrBelow(returns, threshold, Len(returns))
        excess_gains == [i \in 1..Len(gains) |-> RSub(gains[i], threshold)]
        excess_losses == [i \in 1..Len(losses) |-> RSub(threshold, losses[i])]
    IN IF VecSum(excess_losses) = Zero THEN PosInf
       ELSE RDiv(VecSum(excess_gains), VecSum(excess_losses))

RECURSIVE MaxTo(_, _)
\* the largest of the entries among the first k that are not NaN (NaN if none)
MaxTo(v, k) ==
    IF k = 0 THEN NaN
    ELSE IF IsNaN(v[k]) THEN MaxTo(v, k - 1)
    ELSE IF IsNaN(MaxTo(v, k - 1)) THEN v[k]
    ELSE RMax(MaxTo(v, k - 1), v[k])

\* variant of SeriesCumMax: the maximum of the whole series at every position
SeriesGlobalMax(v, k) == IF IsNaN(v[k]) THEN NaN ELSE MaxTo(v, Len(v))

\* pandas .cummax() at position k: NaN entries are skipped and stay NaN
SeriesCumMax(v, k) == IF IsNaN(v[k]) THEN NaN ELSE MaxTo(v, k)

\* calculations.metrics.calculate_max_drawdown on a series of portfolio values
calculations_calculate_max_drawdown(portfolio_values) ==
    LET n == Len(portfolio_values)
        cumulative_max == [t \in 1..n |-> SeriesCumMax(portfolio_values, t)]
        drawdown == [t \in 1..n |->
                        RDiv(RSub(portfolio_values[t], cumulative_max[t]), cumulative_max[t])]
    IN SeriesMin(drawdown)

RECURSIVE ForwardFilled(_, _, _)
\* the value of column k at row t after fillna(method="ffill"): the last entry
\* at or before row t that is not NaN; NaN when there is none
ForwardFilled(data, t, k) ==
    IF t = 0 THEN NaN
    ELSE IF ~IsNaN(data[t][k]) THEN data[t][k]
    ELSE ForwardFilled(data, t - 1, k)

\* data.fillna(method="ffill")
ffill(data) ==
    [t \in 1..Len(data) |-> [k \in 1..Len(data[t]) |-> ForwardFilled(data, t, k)]]

\* data.pct_change(): data / data.shift(1) - 1, the first row is NaN
pct_change(data) ==
    [t \in 1..Len(data) |->
        [k \in 1..Len(data[t]) |->
            IF t = 1 THEN NaN ELSE RSub(RDiv(data[t][k], data[t - 1][k]), Unit)]]

RECURSIVE dropna(_, _)
\* .dropna() on the first t rows: the rows without NaN, each with its row label
dropna(frame, t) ==
    IF t = 0 THEN << >>
    ELSE IF AnyNaN(frame[t]) THEN dropna(frame, t - 1)
    ELSE Append(dropna(frame, t - 1), [label |-> t, values |-> frame[t]])

\* scripts.metrics.calculate_daily_returns(data): data is the sequence of the rows
calculate_daily_returns(data) ==
    LET cleaned == IF AnyNaNMatrix(data) THEN ffill(data) ELSE data
    IN dropna(pct_change(cleaned), Len(data))

\* the lines scripts.metrics.calculate_max_drawdown prints: nothing when it
\* raises, the five debugging lines otherwise
scripts_calculate_max_drawdown_output(portfolio_returns) ==
    IF AnyNaN(portfolio_returns) THEN << >>
    ELSE <<"Portfolio Returns:", "Cumulative Returns:", "Running Max:", "Drawdown:",
           "Maximum Drawdown:">>

\* the line scripts.metrics.calculate_daily_returns prints when it finds NaN
calculate_daily_returns_output(data) ==
    IF AnyNaNMatrix(data)
    THEN <<"NaN values detected in the input data. Cleaning the data by forward-filling.">>
    ELSE << >>

\* stressed_returns of stress_test_portfolio: a copy of asset_returns in which
\* the columns named by the scenario are shocked
stressed_returns_of(asset_returns, stress_scenario, mode) ==
    [t \in 1..Len(asset_returns.rows) |->
        [k \in 1..Len(asset_returns.columns) |->
            LET asset == asset_returns.columns[k]
                value == asset_returns.rows[t][k]
            IN IF asset \in DOMAIN stress_scenario
               THEN IF mode = "multiplicative"
                    THEN RMul(value, RAdd(Unit, stress_scenario[asset]))
                    ELSE IF mode = "additive" THEN RAdd(value, stress_scenario[asset])
                    ELSE value
               ELSE value]]

\* stressed_returns.dot(portfolio_weights)
portfolio_stressed_returns_of(portfolio_weights, asset_returns, stress_scenario, mode) ==
    LET stressed_returns == stressed_returns_of(asset_returns, stress_scenario, mode)
    IN [t \in 1..Len(stressed_returns) |-> Dot(stressed_returns[t], portfolio_weights)]

\* scripts.metrics.stress_test_portfolio
stress_test_portfolio(portfolio_weights, asset_returns, stress_scenario, mode) ==
    LET portfolio_stressed_returns ==
            portfolio_stressed_returns_of(portfolio_weights, asset_returns, stress_scenario, mode)
        stressed_mdd == scripts_calculate_max_drawdown(portfolio_stressed_returns)
    IN IF stressed_mdd.kind = "raised" THEN stressed_mdd
       ELSE [kind |-> "value", error |-> "none",
             value |-> [stressed_return |-> SeriesMean(portfolio_stressed_returns),
                        stressed_risk |-> SeriesStd(portfolio_stressed_returns),
                        stressed_mdd |-> stressed_mdd.value]]

(***************************************************************************)
(* Inputs of the metrics calls, and the calls.                             *)
(***************************************************************************)
ReturnSamples == {Q(-2, 1), Q(-1, 1), Q(-1, 2), Zero, Q(1, 2)}

SeriesOver(samples) == UNION {[1..len -> samples] : len \in 1..MaxLen}

Confidences == {Q(1, 4), Q(1, 2), Q(3, 4), Q(95, 100)}

\* the series of tests/test_calculations.py
OmegaExample == <<Q(5, 100), Q(7, 100), Q(3, 100), Q(-2, 100), Q(4, 100)>>

VarExample == <<Q(-2, 100), Q(-1, 100), Zero, Q(1, 100), Q(3, 100)>>

ValuesExample == <<Q(100, 1), Q(105, 1), Q(90, 1), Q(95, 1), Q(110, 1)>>

SharpeExample == <<Q(10, 100), Q(15, 100), Q(2, 100)>>

RiskSeries == SeriesOver(ReturnSamples) \cup {VarExample}

Thresholds == {Q(-1, 2), Zero, Q(2, 100)}

ValueSamples == {Q(90, 1), Q(100, 1), Q(105, 1), Q(110, 1)}

PriceSamples == {NaN, Q(100, 1), Q(110, 1)}

\* one row of a price table with two columns
PriceRows == [1..2 -> PriceSamples]

\* price tables: 1..MaxRows rows
PriceTables == UNION {[1..rows -> PriceRows] : rows \in 1..MaxRows}

RiskFreeRates == {Q(1, 100), Q(2, 100)}

\* positional argument lists of calculate_sharpe_ratio: (returns), (returns,
\* risk_free_rate), and the three numbers of the test
SharpeArgs ==
    LET series == {r \in SeriesOver(ReturnSamples) : HasExactStd(r)}
    IN {<<r>> : r \in series} \cup {<<r, f>> : r \in series, f \in RiskFreeRates}
       \cup {SharpeExample}

\* return series of calculate_max_drawdown: also the empty one
DrawdownSeries == SeriesOver(ReturnSamples \cup {NaN}) \cup {<< >>}

\* value series of calculate_max_drawdown: also the empty one and those of NaN only
DrawdownValues ==
    SeriesOver(ValueSamples) \cup {ValuesExample, << >>} \cup {Const(len, NaN) : len \in 1..MaxLen}

StressSamples == {Q(-1, 2), Zero, Q(1, 2)}

\* asset_returns of stress_test_portfolio: three days of the assets A and B
StressTables ==
    [columns : {<<"A", "B">>}, rows : [1..3 -> [1..2 -> StressSamples]]]

\* stress_scenario: a dict from asset names to shocks (C is no column of the table)
StressScenarios == {<< >>, "A" :> Q(-1, 2), "B" :> Unit, "C" :> Unit}

StressModes == {"multiplicative", "additive"}

StressWeights == {<<Q(1, 2), Q(1, 2)>>, <<Unit, Zero>>}

\* calculate_max_drawdown(portfolio_returns) of scripts/metrics.py
CalculateMaxDrawdown ==
    /\ metCall = None
    /\ \E r \in DrawdownSeries :
        /\ metCall' = Some([fn |-> "scripts.calculate_max_drawdown", returns |-> r,
                            confidence_level |-> NaN])
        /\ metResult' = Some(scripts_calculate_max_drawdown(r))
        /\ metAfter' = Some(r)
        /\ metPrinted' = scripts_calculate_max_drawdown_output(r)

\* calculate_var and calculate_cvar of scripts/metrics.py on one series (app.py)
ScriptsRiskMetrics ==
    /\ metCall = None
    /\ \E r \in RiskSeries, c \in Confidences :
        /\ metCall' = Some([fn |-> "scripts.calculate_var_cvar", returns |-> r,
                            confidence_level |-> c])
        /\ metResult' = Some([var |-> scripts_calculate_var(r, c),
                              cvar |-> scripts_calculate_cvar(r, c)])
        /\ metAfter' = Some(r)
        /\ metPrinted' = << >>

\* calculate_var and calculate_cvar of src/calculations/metrics.py on one series
\* (monte_carlo_with_metrics)
CalculationsRiskMetrics ==
    /\ metCall = None
    /\ \E r \in RiskSeries, c \in Confidences :
        /\ metCall' = Some([fn |-> "calculations.calculate_var_cvar", returns |-> r,
                            confidence_level |-> c])
        /\ metResult' = Some([var |-> calculations_calculate_var(r, c),
                              cvar |-> calculations_calculate_cvar(r, c)])
        /\ metAfter' = Some(r)
        /\ metPrinted' = << >>

\* calculate_omega_ratio(returns, threshold) of src/calculations/metrics.py
CalculateOmegaRatio ==
    /\ metCall = None
    /\ \E r \in SeriesOver(ReturnSamples) \cup {<< >>, OmegaExample}, threshold \in Thresholds :
        /\ metCall' = Some([fn |-> "calculations.calculate_omega_ratio", returns |-> r,
                            threshold |-> threshold])
        /\ metResult' = Some(calculations_calculate_omega_ratio(r, threshold))
        /\ metAfter' = Some(r)
        /\ metPrinted' = << >>

\* calculate_max_drawdown(portfolio_values) of src/calculations/metrics.py
CalculateValuesMaxDrawdown ==
    /\ metCall = None
    /\ \E v \in DrawdownValues :
        /\ metCall' = Some([fn |-> "calculations.calculate_max_drawdown", portfolio_values |-> v])
        /\ metResult' = Some(calculations_calculate_max_drawdown(v))
        /\ metAfter' = Some(v)
        /\ metPrinted' = << >>

\* calculate_daily_returns(data) of scripts/metrics.py: fillna returns a new
\* table, the caller's table is not touched
CalculateDailyReturns ==
    /\ metCall = None
    /\ \E data \in PriceTables :
        /\ metCall' = Some([fn |-> "scripts.calculate_daily_returns", data |-> data])
        /\ metResult' = Some(calculate_daily_returns(data))
        /\ metAfter' = Some(data)
        /\ metPrinted' = calculate_daily_returns_output(data)

\* calculate_sharpe_ratio(*args) of src/calculations/metrics.py
CalculateSharpeRatio ==
    /\ metCall = None
    /\ \E args \in SharpeArgs :
        /\ metCall' = Some([fn |-> "calculations.calculate_sharpe_ratio", args |-> args])
        /\ metResult' = Some(call_calculate_sharpe_ratio(args))
        /\ metAfter' = Some(args)
        /\ metPrinted' = << >>

\* stress_test_portfolio(portfolio_weights, asset_returns, stress_scenario, mode)
\* of scripts/metrics.py: the shocks go to a copy of asset_returns (the tables
\* taken are those for which the standard deviation is rational)
StressTestPortfolio ==
    /\ metCall = None
    /\ \E w \in StressWeights, table \in StressTables, scenario \in StressScenarios,
          mode \in StressModes :
        /\ HasExactStd(portfolio_stressed_returns_of(w, table, scenario, mode))
        /\ metCall' = Some([fn |-> "scripts.stress_test_portfolio", portfolio_weights |-> w,
                            asset_returns |-> table, stress_scenario |-> scenario,
                            mode |-> mode])
        /\ metResult' = Some(stress_test_portfolio(w, table, scenario, mode))
        /\ metAfter' = Some(<<w, table>>)
        /\ metPrinted' = scripts_calculate_max_drawdown_output(
                             portfolio_stressed_returns_of(w, table, scenario, mode))

(***************************************************************************)
(* scripts/simulations.py (random allocations) and                         *)
(* src/simulations/monte_carlo.py (simulated paths)                        *)
(***************************************************************************)
\* np.zeros((rows, cols)), kept as the sequence of its columns
zeros(rows, cols) == [c \in 1..cols |-> [r \in 1..rows |-> Zero]]

\* variant of range_exhausted that stops one iteration early
range_exhausted_early(i, num_simulations) == i >= num_simulations - 1

\* "for i in range(num_simulations)" has no further value after i iterations
range_exhausted(i, num_simulations) == i >= num_simulations

\* weights = np.random.random(num_assets); weights /= np.sum(weights)
normalized_weights(draws) ==
    LET total == VecSum(draws)
    IN [k \in 1..Len(draws) |-> RDiv(draws[k], total)]

\* variant of returns_after_trial in which the shock is applied in place
returns_shocked_in_place(call, shock_draws) ==
    IF call.shock_factor # None
    THEN [k \in 1..Len(call.returns) |-> RMul(call.returns[k], RAdd(Unit, shock_draws[k]))]
    ELSE call.returns

\* the caller's returns array after a trial: shocked_returns is a new array
\* (returns * (1 + ...)) or the same object, never written to
returns_after_trial(call, shock_draws) == call.returns

\* one pass of the loop of scripts.simulations.monte_carlo_simulation:
\* the (volatility, return, Sharpe) column of the trial
random_allocation_trial(call, draws, shock_draws) ==
    LET weights == normalized_weights(draws)
        shocked_returns ==
            IF call.shock_factor # None
            THEN [k \in 1..Len(call.returns) |->
                      RMul(call.returns[k], RAdd(Unit, shock_draws[k]))]
            ELSE call.returns
        portfolio_return == Dot(weights, shocked_returns)
        portfolio_volatility ==
            RSqrt(Dot(weights, MatVec(call.covariance_matrix, weights)))
        sharpe_ratio == RDiv(RSub(portfolio_return, call.risk_free_rate), portfolio_volatility)
    IN <<portfolio_volatility, portfolio_return, sharpe_ratio>>

\* column k of a table kept as the sequence of its rows
Column(table, k) == [t \in 1..Len(table) |-> table[t][k]]

\* returns.mean(): the mean of every column
column_means(returns) ==
    [k \in 1..Len(returns[1]) |-> SeriesMean(Column(returns, k))]

\* returns.cov(): the sample covariance (ddof = 1) of every pair of columns,
\* NaN for a table with a single row
sample_cov(returns) ==
    LET rows == Len(returns)
        mean == column_means(returns)
    IN [j \in 1..Len(returns[1]) |->
           [k \in 1..Len(returns[1]) |->
               RDiv(VecSum([t \in 1..rows |->
                                RMul(RSub(returns[t][j], mean[j]), RSub(returns[t][k], mean[k]))]),
                    Q(rows - 1, 1))]]

\* np.random.multivariate_normal draws, per day and asset
ReturnDraws == {Q(-1, 2), Q(1, 2)}

\* the vectors one day of np.random.multivariate_normal(mean, cov) can give:
\* an asset of variance 0 is always drawn at its mean
DayDraws(mean, cov) ==
    {d \in [1..Len(mean) -> ReturnDraws \cup {mean[k] : k \in 1..Len(mean)}] :
        \A k \in 1..Len(mean) :
            IF cov[k][k] = Zero THEN d[k] = mean[k] ELSE d[k] \in ReturnDraws}

\* np.random.multivariate_normal(mean, cov, size): the SVD of a covariance
\* with NaN either does not converge (LinAlgError) or yields NaN draws,
\* depending on the LAPACK build
multivariate_normal(mean, cov, size) ==
    IF AnyNaNMatrix(cov)
    THEN {[kind |-> "raised", error |-> "LinAlgError", value |-> << >>],
          [kind |-> "value", error |-> "none",
           value |-> [t \in 1..size |-> [k \in 1..Len(mean) |-> NaN]]]}
    ELSE {[kind |-> "value", error |-> "none", value |-> d] :
              d \in [1..size -> DayDraws(mean, cov)]}

\* one pass of the loop of monte_carlo.monte_carlo_simulation: the column
\* initial_portfolio * np.cumprod(1 + daily_returns, axis=0)[:, -1]
path_trial(call, daily_returns) ==
    LET last == Len(daily_returns[1])
        growth == [t \in 1..Len(daily_returns) |-> RAdd(Unit, daily_returns[t][last])]
    IN [t \in 1..Len(daily_returns) |-> RMul(call.initial_portfolio, CumProd(growth, t))]

\* daily_returns.mean(axis=1) of monte_carlo_with_metrics (numpy: NaN propagates)
with_metrics_portfolio_returns(daily_returns) ==
    [t \in 1..Len(daily_returns) |-> Mean(daily_returns[t])]

\* initial_portfolio * (1 + portfolio_returns).cumprod() of monte_carlo_with_metrics
with_metrics_portfolio_values(call, daily_returns) ==
    LET portfolio_returns == with_metrics_portfolio_returns(daily_returns)
        growth == [t \in 1..Len(portfolio_returns) |-> RAdd(Unit, portfolio_returns[t])]
    IN [t \in 1..Len(portfolio_returns) |-> RMul(call.initial_portfolio, CumProd(growth, t))]

\* one pass of the loop of monte_carlo_with_metrics: the metrics of the simulation
with_metrics_trial(call, daily_returns) ==
    LET portfolio_returns == with_metrics_portfolio_returns(daily_returns)
        portfolio_values == with_metrics_portfolio_values(call, daily_returns)
    IN [sharpe_ratio |-> calculations_calculate_sharpe_ratio(portfolio_returns, Q(1, 100)),
        var |-> calculations_calculate_var(portfolio_returns, Q(95, 100)),
        cvar |-> calculations_calculate_cvar(portfolio_returns, Q(95, 100)),
        max_drawdown |-> calculations_calculate_max_drawdown(portfolio_values),
        omega_ratio |-> calculations_calculate_omega_ratio(portfolio_returns, call.threshold)]

(***************************************************************************)
(* Inputs of the simulation calls, and the calls.                          *)
(***************************************************************************)
TrialCounts == 0..MaxTrials

Horizons == 1..MaxHorizon

\* np.random.random draws, per asset
WeightDraws == {Zero, Q(1, 2)}

\* np.random.uniform(-f, f) draws, per asset
ShockDraws(f) == {RMul(Q(-1, 2), f), RMul(Q(1, 2), f)}

RandomAllocationArgs ==
    [mode : {"random_allocation"},
     returns : {PatternVec(2, Q(4, 100), Q(10, 100))},
     covariance_matrix : {RankOne(PatternVec(2, Q(10, 100), Q(30, 100))), RankOne(Const(2, Zero))},
     num_simulations : TrialCounts,
     risk_free_rate : {Q(2, 100)},
     shock_factor : {None, Some(Q(1, 2))}]

\* return tables (rows are days, columns are assets): three days of two assets,
\* a table whose second asset never moves, and a table with a single row
ReturnTables ==
    {<<<<Q(1, 100), Q(2, 100)>>, <<Q(2, 100), Q(1, 100)>>, <<Q(-1, 100), Zero>>>>,
     <<<<Q(1, 100), Q(2, 100)>>, <<Q(3, 100), Q(2, 100)>>>>,
     <<<<Q(1, 100), Q(2, 100)>>>>}

PathArgs ==
    [mode : {"path"},
     returns : ReturnTables,
     num_simulations : TrialCounts,
     time_horizon : Horizons,
     initial_portfolio : {Q(10000, 1)}]

WithMetricsArgs ==
    [mode : {"with_metrics"},
     returns : ReturnTables,
     num_simulations : TrialCounts,
     time_horizon : Horizons,
     initial_portfolio : {Q(10000, 1)},
     threshold : {Q(1, 100)}]

\* scripts.simulations.monte_carlo_simulation(...) up to the loop
RandomAllocationStart ==
    /\ simPc = "idle"
    /\ \E call \in RandomAllocationArgs :
        /\ simCall' = Some(call)
        /\ simResults' = zeros(3, call.num_simulations)
    /\ simPc' = "loop"
    /\ simI' = 0
    /\ simWritten' = {}
    /\ UNCHANGED <<simReturned, simWeights, simDraws, simError>>

\* one trial: draw the weights (and the shocks), write column i
RandomAllocationTrial ==
    /\ simPc = "loop"
    /\ simCall[1].mode = "random_allocation"
    /\ ~range_exhausted(simI, simCall[1].num_simulations)
    /\ \E draws \in [1..Len(simCall[1].returns) -> WeightDraws] :
       \E shock_draws \in
              IF simCall[1].shock_factor = None THEN {None}
              ELSE [1..Len(simCall[1].returns) -> ShockDraws(simCall[1].shock_factor[1])] :
          /\ simWeights' = normalized_weights(draws)
          /\ simDraws' = <<draws, shock_draws>>
          /\ simResults' = [simResults EXCEPT
                               ![simI + 1] = random_allocation_trial(simCall[1], draws, shock_draws)]
          /\ simCall' = Some([simCall[1] EXCEPT
                                 !.returns = returns_after_trial(simCall[1], shock_draws)])
    /\ simWritten' = simWritten \cup {simI + 1}
    /\ simI' = simI + 1
    /\ UNCHANGED <<simPc, simReturned, simError>>

\* the loop is over: return results
RandomAllocationReturn ==
    /\ simPc = "loop"
    /\ simCall[1].mode = "random_allocation"
    /\ range_exhausted(simI, simCall[1].num_simulations)
    /\ simReturned' = Some(simResults)
    /\ simPc' = "returned"
    /\ UNCHANGED <<simCall, simI, simResults, simWritten, simWeights, simDraws, simError>>

\* monte_carlo.monte_carlo_simulation(...) up to the loop
PathStart ==
    /\ simPc = "idle"
    /\ \E call \in PathArgs :
        /\ simCall' = Some(call)
        /\ simResults' = zeros(call.time_horizon, call.num_simulations)
    /\ simPc' = "loop"
    /\ simI' = 0
    /\ simWritten' = {}
    /\ UNCHANGED <<simReturned, simWeights, simDraws, simError>>

\* one simulation: draw time_horizon days of returns per asset, write column sim;
\* the exception of the draw ends the call
PathTrial ==
    /\ simPc = "loop"
    /\ simCall[1].mode = "path"
    /\ ~range_exhausted(simI, simCall[1].num_simulations)
    /\ \E drawn \in multivariate_normal(column_means(simCall[1].returns),
                                        sample_cov(simCall[1].returns),
                                        simCall[1].time_horizon) :
          IF drawn.kind = "raised"
          THEN /\ simPc' = "raised"
               /\ simError' = drawn.error
               /\ UNCHANGED <<simI, simResults, simWritten, simDraws>>
          ELSE /\ simDraws' = drawn.value
               /\ simResults' = [simResults EXCEPT
                                    ![simI + 1] = path_trial(simCall[1], drawn.value)]
               /\ simWritten' = simWritten \cup {simI + 1}
               /\ simI' = simI + 1
               /\ UNCHANGED <<simPc, simError>>
    /\ UNCHANGED <<simCall, simReturned, simWeights>>

\* the loop is over: return pd.DataFrame(portfolio_values)
PathReturn ==
    /\ simPc = "loop"
    /\ simCall[1].mode = "path"
    /\ range_exhausted(simI, simCall[1].num_simulations)
    /\ simReturned' = Some(simResults)
    /\ simPc' = "returned"
    /\ UNCHANGED <<simCall, simI, simResults, simWritten, simWeights, simDraws, simError>>

\* monte_carlo.monte_carlo_with_metrics(...) up to the loop: the metric lists are empty
WithMetricsStart ==
    /\ simPc = "idle"
    /\ \E call \in WithMetricsArgs : simCall' = Some(call)
    /\ simResults' = << >>
    /\ simPc' = "loop"
    /\ simI' = 0
    /\ simWritten' = {}
    /\ UNCHANGED <<simReturned, simWeights, simDraws, simError>>

\* one simulation: draw the returns, append the five metrics of the simulation
\* (the draws taken are those for which the standard deviation is rational)
WithMetricsTrial ==
    /\ simPc = "loop"
    /\ simCall[1].mode = "with_metrics"
    /\ ~range_exhausted(simI, simCall[1].num_simulations)
    /\ \E drawn \in multivariate_normal(column_means(simCall[1].returns),
                                        sample_cov(simCall[1].returns),
                                        simCall[1].time_horizon) :
          IF drawn.kind = "raised"
          THEN /\ simPc' = "raised"
               /\ simError' = drawn.error
               /\ UNCHANGED <<simI, simResults, simWritten, simDraws>>
          ELSE /\ HasExactStd(with_metrics_portfolio_returns(drawn.value))
               /\ simDraws' = drawn.value
               /\ simResults' = Append(simResults, with_metrics_trial(simCall[1], drawn.value))
               /\ simWritten' = simWritten \cup {simI + 1}
               /\ simI' = simI + 1
               /\ UNCHANGED <<simPc, simError>>
    /\ UNCHANGED <<simCall, simReturned, simWeights>>

\* the loop is over: return pd.DataFrame(metrics)
WithMetricsReturn ==
    /\ simPc = "loop"
    /\ simCall[1].mode = "with_metrics"
    /\ range_exhausted(simI, simCall[1].num_simulations)
    /\ simReturned' = Some(simResults)
    /\ simPc' = "returned"
    /\ UNCHANGED <<simCall, simI, simResults, simWritten, simWeights, simDraws, simError>>

(***************************************************************************)
(* src/data/fetch_data.py: the market-data provider (yfinance) is the       *)
(* environment, the joblib Memory is the cache.                             *)
(***************************************************************************)
AssetTypes == {"stocks", "crypto", "bonds"}

\* the lists of symbols a caller passes: the order is the caller's
SymbolLists == {<<"AAPL">>, <<"MSFT">>, <<"AAPL", "MSFT">>, <<"MSFT", "AAPL">>}

StartDates == {"2022-01-01"}

EndDates == {"2022-12-31"}

\* what yf.download does: it returns a table or raises
DownloadOutcomes == {"table", "raises"}

\* what stock.history(period="1d") does for one symbol: rows, no row, or it raises
HistoryOutcomes == {"data", "empty", "raises"}

\* the table yf.download(symbols, start, end, group_by="ticker") returns
downloaded_table(symbols, start_date, end_date) ==
    [tickers |-> symbols, start |-> start_date, end |-> end_date]

\* get_historical_data_for_asset_class: ValueError for an unknown asset type,
\* else the downloaded table, or None and a printed line when the download raises
get_historical_data_for_asset_class(asset_type, symbols, start_date, end_date, outcome) ==
    IF asset_type \notin {"stocks", "indices", "forex", "crypto"}
    THEN [kind |-> "raised", error |-> "ValueError", value |-> None, provider_calls |-> 0,
          printed |-> << >>]
    ELSE IF outcome = "table"
    THEN [kind |-> "returned", error |-> "none",
          value |-> Some(downloaded_table(symbols, start_date, end_date)), provider_calls |-> 1,
          printed |-> << >>]
    ELSE [kind |-> "returned", error |-> "none", value |-> None, provider_calls |-> 1,
          printed |-> <<"Error fetching data for " \o asset_type \o ": provider error">>]

\* the key joblib computes for a call: the hash of the arguments as passed
cache_key(asset_type, symbols, start_date, end_date) ==
    <<asset_type, symbols, start_date, end_date>>

\* get_cached_historical_data (@memory.cache): the stored value on a hit, with
\* nothing run and nothing printed; on a miss the function runs (and prints) and
\* its return value is stored, an exception is not
get_cached_historical_data(cache, asset_type, symbols, start_date, end_date, outcome) ==
    LET key == cache_key(asset_type, symbols, start_date, end_date)
        hits == {entry \in cache : entry.key = key}
        computed ==
            get_historical_data_for_asset_class(asset_type, symbols, start_date, end_date, outcome)
    IN IF hits # {}
       THEN [result |-> [kind |-> "returned", error |-> "none",
                         value |-> (CHOOSE entry \in hits : TRUE).value, provider_calls |-> 0,
                         printed |-> << >>],
             cache |-> cache]
       ELSE IF computed.kind = "raised" THEN [result |-> computed, cache |-> cache]
       ELSE [result |-> computed,
             cache |-> cache \cup {[key |-> key, value |-> computed.value]}]

\* the entry get_realtime_data_for_asset_class stores for one symbol
realtime_entry(outcome) ==
    IF outcome = "data" THEN [price |-> "Close[-1]", timestamp |-> "index[-1]"]
    ELSE [price |-> "None", timestamp |-> "None"]

\* the line get_realtime_data_for_asset_class prints for one symbol ("" for none)
realtime_line(symbol, outcome) ==
    IF outcome = "empty" THEN "No real-time data for " \o symbol
    ELSE IF outcome = "raises"
    THEN "Failed to fetch real-time data for " \o symbol \o ": provider error"
    ELSE ""

\* get_realtime_data_for_asset_class: one provider call and one entry per symbol,
\* and one printed line per symbol without data, in the order of the symbols
get_realtime_data_for_asset_class(asset_type, symbols, outcomes) ==
    [kind |-> "returned", error |-> "none",
     value |-> [symbol \in {symbols[i] : i \in 1..Len(symbols)} |->
                    realtime_entry(outcomes[symbol])],
     provider_calls |-> Len(symbols),
     printed |-> SelectSeq([i \in 1..Len(symbols) |->
                                realtime_line(symbols[i], outcomes[symbols[i]])],
                           LAMBDA line : line # "")]

\* the entry get_batch_realtime_data stores for one ticker: .iloc[-1] of an
\* empty table is an IndexError, caught like the provider's exception
batch_realtime_entry(outcome) ==
    IF outcome = "data" THEN [price |-> "Close[-1]", timestamp |-> "index[-1]"]
    ELSE IF outcome = "empty" THEN [error |-> "single positional indexer is out-of-bounds"]
    ELSE [error |-> "provider error"]

\* get_batch_realtime_data: one provider call and one entry per ticker
get_batch_realtime_data(tickers, outcomes) ==
    [kind |-> "returned", error |-> "none",
     value |-> [ticker \in {tickers[i] : i \in 1..Len(tickers)} |->
                    batch_realtime_entry(outcomes[ticker])],
     provider_calls |-> Len(tickers), printed |-> << >>]

FetchInit ==
    /\ fetchCache = {}
    /\ fetchCount = 0
    /\ fetchLast = None

\* a call of get_historical_data_for_asset_class
FetchHistorical ==
    /\ fetchCount < MaxFetches
    /\ \E asset_type \in AssetTypes, symbols \in SymbolLists, start_date \in StartDates,
          end_date \in EndDates, outcome \in DownloadOutcomes :
        fetchLast' = Some([fn |-> "get_historical_data_for_asset_class",
                           asset_type |-> asset_type, symbols |-> symbols,
                           start_date |-> start_date, end_date |-> end_date,
                           result |-> get_historical_data_for_asset_class(
                                          asset_type, symbols, start_date, end_date, outcome)])
    /\ fetchCount' = fetchCount + 1
    /\ UNCHANGED fetchCache

\* a call of get_cached_historical_data
FetchCached ==
    /\ fetchCount < MaxFetches
    /\ \E asset_type \in AssetTypes, symbols \in SymbolLists, start_date \in StartDates,
          end_date \in EndDates, outcome \in DownloadOutcomes :
        LET out == get_cached_historical_data(fetchCache, asset_type, symbols, start_date,
                                              end_date, outcome)
        IN /\ fetchLast' = Some([fn |-> "get_cached_historical_data",
                                 asset_type |-> asset_type, symbols |-> symbols,
                                 start_date |-> start_date, end_date |-> end_date,
                                 result |-> out.result])
           /\ fetchCache' = out.cache
    /\ fetchCount' = fetchCount + 1

\* a call of get_realtime_data_for_asset_class
FetchRealtime ==
    /\ fetchCount < MaxFetches
    /\ \E asset_type \in AssetTypes, symbols \in SymbolLists :
       \E outcomes \in [{symbols[i] : i \in 1..Len(symbols)} -> HistoryOutcomes] :
        fetchLast' = Some([fn |-> "get_realtime_data_for_asset_class",
                           asset_type |-> asset_type, symbols |-> symbols,
                           start_date |-> "none", end_date |-> "none",
                           result |-> get_realtime_data_for_asset_class(
                                          asset_type, symbols, outcomes)])
    /\ fetchCount' = fetchCount + 1
    /\ UNCHANGED fetchCache

\* a call of get_batch_realtime_data
FetchBatchRealtime ==
    /\ fetchCount < MaxFetches
    /\ \E tickers \in SymbolLists :
       \E outcomes \in [{tickers[i] : i \in 1..Len(tickers)} -> HistoryOutcomes] :
        fetchLast' = Some([fn |-> "get_batch_realtime_data",
                           asset_type |-> "none", symbols |-> tickers,
                           start_date |-> "none", end_date |-> "none",
                           result |-> get_batch_realtime_data(tickers, outcomes)])
    /\ fetchCount' = fetchCount + 1
    /\ UNCHANGED fetchCache

(***************************************************************************)
(* src/simulations/real_data_monte_carlo.py: run_monte_carlo_with_visualization *)
(***************************************************************************)
PipelineArgs ==
    [tickers : SymbolLists, start_date : StartDates, end_date : EndDates,
     num_simulations : 0..MaxTrials, time_horizon : 1..MaxHorizon]

\* the columns of the DataFrame monte_carlo_with_metrics returns
metrics_columns == <<"Sharpe Ratio", "VaR (95%)", "CVaR (95%)", "Max Drawdown", "Omega Ratio">>

\* how monte_carlo_with_metrics ends: it returns pd.DataFrame(metrics), one row
\* per simulation, or an exception leaves it
monte_carlo_with_metrics_outcomes(num_simulations) ==
    {[kind |-> "returned", error |-> "none",
      value |-> Some([columns |-> metrics_columns, rows |-> num_simulations])],
     [kind |-> "raised", error |-> "Exception", value |-> None]}

\* "metrics_df, portfolio_values = <DataFrame>": the assignment iterates the
\* DataFrame, which yields its column labels, and needs exactly two of them
unpack_two(frame) ==
    IF Len(frame.columns) = 2
    THEN [kind |-> "returned", error |-> "none", value |-> frame.columns]
    ELSE [kind |-> "raised", error |-> "ValueError", value |-> << >>]

PipeInit ==
    /\ pipePc = "idle"
    /\ pipeCall = None
    /\ pipeData = None
    /\ pipeReturns = None
    /\ pipeSim = None
    /\ pipePlot = None
    /\ pipePrinted = << >>

\* lines 16-17: the call and the fetch through the cache; what the fetch prints
\* follows the line printed before it
PipelineFetch ==
    /\ pipePc = "idle"
    /\ \E call \in PipelineArgs, outcome \in DownloadOutcomes :
        LET out == get_cached_historical_data(fetchCache, "stocks", call.tickers,
                                              call.start_date, call.end_date, outcome)
        IN /\ pipeCall' = Some(call)
           /\ pipeData' = out.result.value
           /\ fetchCache' = out.cache
           /\ fetchLast' = Some([fn |-> "get_cached_historical_data",
                                 asset_type |-> "stocks", symbols |-> call.tickers,
                                 start_date |-> call.start_date, end_date |-> call.end_date,
                                 result |-> out.result])
           /\ pipePrinted' = Append(pipePrinted, "Fetching historical data...")
                                 \o out.result.printed
    /\ fetchCount' = fetchCount + 1
    /\ pipePc' = "fetched"
    /\ UNCHANGED <<pipeReturns, pipeSim, pipePlot>>

\* lines 19-24: the close prices and their returns; data.xs raises when data is
\* None or when the table has no 'Close' column level
PipelineReturns ==
    /\ pipePc = "fetched"
    /\ \E has_close_level \in BOOLEAN :
        IF pipeData # None /\ has_close_level
        THEN /\ pipeReturns' = Some([tickers |-> pipeData[1].tickers])
             /\ pipePc' = "processed"
             /\ UNCHANGED pipePrinted
        ELSE /\ pipePrinted' = Append(pipePrinted, "Error processing data")
             /\ pipePc' = "ended"
             /\ UNCHANGED pipeReturns
    /\ UNCHANGED <<fetchVars, pipeCall, pipeData, pipeSim, pipePlot>>

\* lines 26-41: the simulation, the unpacking of its result, the visualization
PipelineSimulate ==
    /\ pipePc = "processed"
    /\ \E sim \in monte_carlo_with_metrics_outcomes(pipeCall[1].num_simulations) :
        LET unpacked == IF sim.kind = "raised" THEN sim ELSE unpack_two(sim.value[1])
        IN /\ pipeSim' = Some(sim)
           /\ IF unpacked.kind = "raised"
              THEN /\ pipePrinted' = pipePrinted \o
                        <<"Running Monte Carlo simulations with metrics...",
                          "Error during Monte Carlo metrics calculation">>
                   /\ UNCHANGED pipePlot
              ELSE /\ pipePrinted' = pipePrinted \o
                        <<"Running Monte Carlo simulations with metrics...",
                          "Visualizing results...">>
                   /\ pipePlot' = Some([portfolio_values |-> unpacked.value[2],
                                        metrics_df |-> unpacked.value[1]])
    /\ pipePc' = "ended"
    /\ UNCHANGED <<fetchVars, pipeCall, pipeData, pipeReturns>>

(***************************************************************************)
(* Repeated calls of scripts/optimizer.py on the same arguments.  The       *)
(* solver is any deterministic one: what it does next (ask for the          *)
(* objective at a point, or return) is free the first time it is in a       *)
(* history (start, bounds, points asked and values received), and the same  *)
(* every time it is in that history again.                                  *)
(***************************************************************************)
RerunArgs ==
    [variant : {"optimizer"},
     annualized_returns : {PatternVec(2, Q(4, 100), Q(10, 100))},
     covariance_matrix : {RankOne(PatternVec(2, Q(10, 100), Q(30, 100)))},
     initial_weights : {None, Some(PatternVec(2, Unit, Zero))},
     transaction_costs : {None, Some(PatternVec(2, Q(2, 100), Q(1, 100))),
                          Some(PatternVec(2, NaN, Q(1, 100)))},
     risk_free_rate : {Q(2, 100)},
     bounds : {None, Some(constraints_default_bounds(2))}]

\* the points the solver asks for or returns in these calls
RerunPoints == {x \in Candidates(2) : VecSum(x) = Unit \/ VecSum(x) = Zero}

\* variant of arguments_after_call that writes the weights found into the
\* caller's initial_weights array
arguments_with_weights_written_back(args, out) ==
    IF out.kind = "returned" /\ args.initial_weights # None
    THEN [args EXCEPT !.initial_weights = Some(out.result[1].weights)]
    ELSE args

\* the caller's arguments after a call: optimize_portfolio_with_costs rebinds
\* its local names and builds new arrays, it writes to none it was given
arguments_after_call(args, out) == args

\* what the solver has to go on: minimize(objective, initial_weights,
\* bounds=bounds, ...) and the values objective returned so far
solver_history(args, seen) ==
    [start |-> default_initial_weights(args), bounds |-> effective_bounds(args), seen |-> seen]

\* a deterministic solver may make this move in this history
solver_may(moves, history, move) ==
    \A known \in moves : known.history = history => known.move = move

RerunInit ==
    /\ rerunPc = "idle"
    /\ rerunArgs = None
    /\ rerunSeen = << >>
    /\ rerunMoves = {}
    /\ rerunOutcomes = << >>

\* optimize_portfolio_with_costs(...) up to the call of minimize(): the first
\* call with arguments of the caller's choice, a later call with the same ones
RerunCall ==
    /\ rerunPc \in {"idle", "done"}
    /\ Len(rerunOutcomes) < MaxReruns
    /\ \E args \in (IF rerunPc = "idle" THEN RerunArgs ELSE {rerunArgs[1]}) :
        /\ rerunArgs' = Some(args)
        /\ IF entry_check(args) = "ok"
           THEN /\ rerunPc' = "solving"
                /\ UNCHANGED rerunOutcomes
           ELSE /\ rerunPc' = "done"
                /\ rerunOutcomes' = Append(rerunOutcomes,
                       [kind |-> "raised", error |-> "ValueError", warned |-> FALSE,
                        result |-> None])
    /\ rerunSeen' = << >>
    /\ UNCHANGED rerunMoves

\* the solver asks for objective(weights) at a point and receives the value
RerunEvaluate ==
    /\ rerunPc = "solving"
    /\ Len(rerunSeen) < MaxEvals
    /\ \E w \in RerunPoints :
        LET history == solver_history(rerunArgs[1], rerunSeen)
            move == [kind |-> "evaluate", x |-> w, success |-> FALSE]
        IN /\ solver_may(rerunMoves, history, move)
           /\ rerunMoves' = rerunMoves \cup {[history |-> history, move |-> move]}
           /\ rerunSeen' = Append(rerunSeen,
                                  [weights |-> w, value |-> objective(w, rerunArgs[1])])
    /\ UNCHANGED <<rerunPc, rerunArgs, rerunOutcomes>>

\* minimize() returns and the rest of optimize_portfolio_with_costs runs
RerunReturn ==
    /\ rerunPc = "solving"
    /\ \E x \in RerunPoints, success \in BOOLEAN :
        LET history == solver_history(rerunArgs[1], rerunSeen)
            move == [kind |-> "return", x |-> x, success |-> success]
            out == finish(rerunArgs[1], x, success)
        IN /\ success => Feasible(x, effective_bounds(rerunArgs[1]))
           /\ solver_may(rerunMoves, history, move)
           /\ rerunMoves' = rerunMoves \cup {[history |-> history, move |-> move]}
           /\ rerunOutcomes' = Append(rerunOutcomes, out)
           /\ rerunArgs' = Some(arguments_after_call(rerunArgs[1], out))
    /\ rerunPc' = "done"
    /\ UNCHANGED rerunSeen

MetInit ==
    /\ metCall = None
    /\ metResult = None
    /\ metAfter = None
    /\ metPrinted = << >>

SimInit ==
    /\ simPc = "idle"
    /\ simCall = None
    /\ simI = 0
    /\ simResults = << >>
    /\ simWritten = {}
    /\ simReturned = None
    /\ simWeights = << >>
    /\ simDraws = << >>
    /\ simError = "none"

Init == OptInit /\ MetInit /\ SimInit /\ FetchInit /\ PipeInit /\ RerunInit

NextOptimizer ==
    \/ OptimizeCall /\ UNCHANGED <<metVars, simVars, fetchVars, pipeVars, rerunVars>>
    \/ SolverEvaluate /\ UNCHANGED <<metVars, simVars, fetchVars, pipeVars, rerunVars>>
    \/ ObjectiveReturn /\ UNCHANGED <<metVars, simVars, fetchVars, pipeVars, rerunVars>>
    \/ SolverReturn /\ UNCHANGED <<metVars, simVars, fetchVars, pipeVars, rerunVars>>

SpecOptimizer == Init /\ [][NextOptimizer]_vars

NextDefaultBounds ==
    \/ OptimizeDefaultBoundsCall /\ UNCHANGED <<metVars, simVars, fetchVars, pipeVars, rerunVars>>
    \/ SolverEvaluate /\ UNCHANGED <<metVars, simVars, fetchVars, pipeVars, rerunVars>>
    \/ ObjectiveReturn /\ UNCHANGED <<metVars, simVars, fetchVars, pipeVars, rerunVars>>
    \/ SolverReturn /\ UNCHANGED <<metVars, simVars, fetchVars, pipeVars, rerunVars>>

SpecDefaultBounds == Init /\ [][NextDefaultBounds]_vars

NextMetrics ==
    \/ CalculateMaxDrawdown /\ UNCHANGED <<optVars, simVars, fetchVars, pipeVars, rerunVars>>
    \/ ScriptsRiskMetrics /\ UNCHANGED <<optVars, simVars, fetchVars, pipeVars, rerunVars>>
    \/ CalculationsRiskMetrics /\ UNCHANGED <<optVars, simVars, fetchVars, pipeVars, rerunVars>>
    \/ CalculateOmegaRatio /\ UNCHANGED <<optVars, simVars, fetchVars, pipeVars, rerunVars>>
    \/ CalculateValuesMaxDrawdown /\ UNCHANGED <<optVars, simVars, fetchVars, pipeVars, rerunVars>>
    \/ CalculateDailyReturns /\ UNCHANGED <<optVars, simVars, fetchVars, pipeVars, rerunVars>>
    \/ CalculateSharpeRatio /\ UNCHANGED <<optVars, simVars, fetchVars, pipeVars, rerunVars>>
    \/ StressTestPortfolio /\ UNCHANGED <<optVars, simVars, fetchVars, pipeVars, rerunVars>>

SpecMetrics == Init /\ [][NextMetrics]_vars

NextSimulation ==
    \/ RandomAllocationStart /\ UNCHANGED <<optVars, metVars, fetchVars, pipeVars, rerunVars>>
    \/ RandomAllocationTrial /\ UNCHANGED <<optVars, metVars, fetchVars, pipeVars, rerunVars>>
    \/ RandomAllocationReturn /\ UNCHANGED <<optVars, metVars, fetchVars, pipeVars, rerunVars>>
    \/ PathStart /\ UNCHANGED <<optVars, metVars, fetchVars, pipeVars, rerunVars>>
    \/ PathTrial /\ UNCHANGED <<optVars, metVars, fetchVars, pipeVars, rerunVars>>
    \/ PathReturn /\ UNCHANGED <<optVars, metVars, fetchVars, pipeVars, rerunVars>>
    \/ WithMetricsStart /\ UNCHANGED <<optVars, metVars, fetchVars, pipeVars, rerunVars>>
    \/ WithMetricsTrial /\ UNCHANGED <<optVars, metVars, fetchVars, pipeVars, rerunVars>>
    \/ WithMetricsReturn /\ UNCHANGED <<optVars, metVars, fetchVars, pipeVars, rerunVars>>

SpecSimulation == Init /\ [][NextSimulation]_vars

NextFetch ==
    \/ FetchHistorical /\ UNCHANGED <<optVars, metVars, simVars, pipeVars, rerunVars>>
    \/ FetchCached /\ UNCHANGED <<optVars, metVars, simVars, pipeVars, rerunVars>>
    \/ FetchRealtime /\ UNCHANGED <<optVars, metVars, simVars, pipeVars, rerunVars>>
    \/ FetchBatchRealtime /\ UNCHANGED <<optVars, metVars, simVars, pipeVars, rerunVars>>

SpecFetch == Init /\ [][NextFetch]_vars

NextPipeline ==
    \/ PipelineFetch /\ UNCHANGED <<optVars, metVars, simVars, rerunVars>>
    \/ PipelineReturns /\ UNCHANGED <<optVars, metVars, simVars, rerunVars>>
    \/ PipelineSimulate /\ UNCHANGED <<optVars, metVars, simVars, rerunVars>>

SpecPipeline == Init /\ [][NextPipeline]_vars

NextRerun ==
    \/ RerunCall /\ UNCHANGED <<optVars, metVars, simVars, fetchVars, pipeVars>>
    \/ RerunEvaluate /\ UNCHANGED <<optVars, metVars, simVars, fetchVars, pipeVars>>
    \/ RerunReturn /\ UNCHANGED <<optVars, metVars, simVars, fetchVars, pipeVars>>

SpecRerun == Init /\ [][NextRerun]_vars

(***************************************************************************)
(* Reference formulas of the specification, written from the arguments of  *)
(* the call alone.                                                         *)
(***************************************************************************)
\* Sharpe ratio: (portfolio return - risk-free rate) / portfolio volatility
RefSharpe(w, args) ==
    RDiv(RSub(Dot(w, args.annualized_returns), args.risk_free_rate),
         RSqrt(Dot(w, MatVec(args.covariance_matrix, w))))

RefInitialWeights(args) ==
    IF args.initial_weights = None
    THEN [i \in 1..Len(args.annualized_returns) |-> Q(1, Len(args.annualized_returns))]
    ELSE args.initial_weights[1]

RefCostRates(args) ==
    IF args.transaction_costs = None
    THEN [i \in 1..Len(args.annualized_returns) |-> Zero]
    ELSE args.transaction_costs[1]

RECURSIVE RefPenaltyTo(_, _, _)
RefPenaltyTo(w, args, k) ==
    IF k = 0 THEN Zero
    ELSE RAdd(RefPenaltyTo(w, args, k - 1),
              RMul(RAbs(RSub(w[k], RefInitialWeights(args)[k])), RefCostRates(args)[k]))

\* transaction-cost penalty: sum of |new_weight_i - initial_weight_i| * cost_rate_i
RefPenalty(w, args) == RefPenaltyTo(w, args, Len(w))

\* NaN among the returns, the covariances, the supplied initial weights or the
\* supplied transaction costs, or a cost vector of another length than the returns
InvalidArgs(args) ==
    \/ AnyNaN(args.annualized_returns)
    \/ AnyNaNMatrix(args.covariance_matrix)
    \/ (args.initial_weights # None /\ AnyNaN(args.initial_weights[1]))
    \/ (args.transaction_costs # None /\ AnyNaN(args.transaction_costs[1]))
    \/ (args.transaction_costs # None
        /\ Len(args.transaction_costs[1]) # Len(args.annualized_returns))

(***************************************************************************)
(* Claims about the optimizer.                                             *)
(***************************************************************************)

\* C1 (as stated): every weight vector returned by optimize_portfolio_with_costs,
\* in either variant and after any solver outcome, sums to 1 and has every weight
\* within its configured (or default) bound.
C1_ReturnedWeightsFeasible ==
    optPc = "returned" =>
        Feasible(optResult[1].weights, effective_bounds(optCall[1]))

\* C2: optimizer.optimize_portfolio_with_costs rejects with a ValueError every call
\* whose returns, covariance, initial weights or transaction costs hold a NaN or
\* whose cost vector differs in length from the returns; the solver is never
\* called for such input and no result is returned.
C2_InvalidInputRejected ==
    (optCall # None /\ optCall[1].variant = "optimizer" /\ InvalidArgs(optCall[1])) =>
        /\ optPc = "raised"
        /\ optError = "ValueError"
        /\ ~solverCalled
        /\ solverOut = None
        /\ optResult = None

C2_Witness ==
    /\ optCall # None
    /\ optCall[1].variant = "optimizer"
    /\ optCall[1].transaction_costs # None
    /\ AnyNaN(optCall[1].transaction_costs[1])
    /\ ~AnyNaN(optCall[1].annualized_returns)
    /\ ~AnyNaNMatrix(optCall[1].covariance_matrix)
    /\ optCall[1].initial_weights = None
    /\ optPc = "raised"
    /\ optError = "ValueError"

\* C3: in scripts/optimizer.py a non-converged solver makes the call fail with an
\* explicit error and no weights, so every returned result has success = TRUE.
C3_NonConvergenceRaises ==
    (optCall # None /\ optCall[1].variant = "optimizer") =>
        /\ (solverOut # None /\ ~solverOut[1].success) =>
               (optPc = "raised" /\ optError = "ValueError" /\ optResult = None)
        /\ optResult # None => optResult[1].success

C3_Witness ==
    /\ optCall # None
    /\ optCall[1].variant = "optimizer"
    /\ solverCalled
    /\ solverOut # None
    /\ ~solverOut[1].success
    /\ optPc = "raised"
    /\ optError = "ValueError"

\* C4 (as stated): for the same arguments and the same non-converging solver
\* outcome the two variants end the same way (both raise, or both return).
C4_SameConvergencePolicy ==
    (solverOut # None /\ ~solverOut[1].success) =>
        optimizer_finish(optCall[1], solverOut[1].x, FALSE).kind
            = constraints_finish(optCall[1], solverOut[1].x, FALSE).kind

\* C5 (as stated): for every point w the solver evaluates, the objective value is
\* the negative Sharpe ratio of w plus the penalty sum |w_i - initial_i| * cost_i,
\* both computed on w itself, in either variant.
C5_ObjectiveOnCandidate ==
    optPc = "in_objective" =>
        lastEval[1].value
            = RAdd(RNeg(RefSharpe(lastEval[1].weights, optCall[1])),
                   RefPenalty(lastEval[1].weights, optCall[1]))

\* C6: the transaction_cost_penalty reported by scripts/optimizer.py is
\* sum |w_i - initial_i| * cost_i for the returned weights w, with the initial
\* weights defaulting to 1/n and the cost rates to zero; with no costs supplied
\* the reported penalty is 0.
C6_PenaltyReported ==
    (optPc = "returned" /\ optCall[1].variant = "optimizer") =>
        /\ optResult[1].transaction_cost_penalty
               = RefPenalty(optResult[1].weights, optCall[1])
        /\ optCall[1].transaction_costs = None =>
               optResult[1].transaction_cost_penalty = Zero

C6_Witness ==
    /\ optPc = "returned"
    /\ optCall[1].variant = "optimizer"
    /\ optCall[1].initial_weights = None
    /\ optCall[1].transaction_costs # None
    /\ optResult[1].weights # EqualWeights(Len(optResult[1].weights))
    /\ RLt(Zero, optResult[1].transaction_cost_penalty)

\* C7 (as stated): the sharpe_ratio field of the returned result is
\* (w.returns - risk_free_rate) / sqrt(w' cov w) for the returned weights w,
\* whatever the transaction costs and initial weights, in either variant.
C7_SharpeFieldIsSharpe ==
    optPc = "returned" =>
        optResult[1].sharpe_ratio = RefSharpe(optResult[1].weights, optCall[1])

(***************************************************************************)
(* Claims about the metrics.                                               *)
(***************************************************************************)
IsRiskCall ==
    /\ metCall # None
    /\ metCall[1].fn \in {"scripts.calculate_var_cvar", "calculations.calculate_var_cvar"}

\* the number of returns strictly below a threshold
CountBelow(returns, threshold) ==
    Cardinality({i \in 1..Len(returns) : RLt(returns[i], threshold)})

\* C8 (as stated): for every series of returns, those of -100% or worse included,
\* calculate_max_drawdown(returns) <= 0.
C8_DrawdownNonPositive ==
    (metCall # None /\ metCall[1].fn = "scripts.calculate_max_drawdown"
     /\ Len(metCall[1].returns) > 0
     /\ ~AnyNaN(metCall[1].returns)) =>
        /\ metResult[1].kind = "value"
        /\ RLeq(metResult[1].value, Zero)

\* C9: for any return series with more than one value below the VaR threshold and
\* any confidence level, calculate_cvar(returns, c) <= calculate_var(returns, c),
\* in the sorted-index implementation and in the percentile implementation.
C9_CVaRBelowVaR ==
    (IsRiskCall /\ CountBelow(metCall[1].returns, metResult[1].var) > 1) =>
        RLeq(metResult[1].cvar, metResult[1].var)

C9_Witness ==
    /\ IsRiskCall
    /\ metCall[1].fn = "scripts.calculate_var_cvar"
    /\ CountBelow(metCall[1].returns, metResult[1].var) > 1
    /\ RLt(metResult[1].cvar, metResult[1].var)

(***************************************************************************)
(* Claims about the simulations.                                           *)
(***************************************************************************)

\* C10: both simulation modes produce exactly one result per trial: the
\* random-allocation call with N trials returns exactly N (volatility, return,
\* Sharpe) triples, all written by the loop, and the path call with N trials
\* returns exactly N portfolio-value paths, each of length time_horizon.
C10_OneResultPerTrial ==
    (simPc = "returned" /\ simCall[1].mode \in {"random_allocation", "path"}) =>
        /\ Len(simReturned[1]) = simCall[1].num_simulations
        /\ simWritten = 1..simCall[1].num_simulations
        /\ \A c \in 1..Len(simReturned[1]) :
               Len(simReturned[1][c])
                   = IF simCall[1].mode = "path" THEN simCall[1].time_horizon ELSE 3

C10_Witness ==
    /\ simPc = "returned"
    /\ simCall[1].mode = "path"
    /\ simCall[1].num_simulations > 1
    /\ simCall[1].time_horizon > 1
    /\ Len(simReturned[1]) = simCall[1].num_simulations
    /\ simReturned[1][1] # simReturned[1][2]

(***************************************************************************)
(* Claims about the metrics library (src/calculations/metrics.py) and      *)
(* scripts/metrics.py.                                                     *)
(***************************************************************************)
IsCall(fn) == metCall # None /\ metCall[1].fn = fn

RECURSIVE RefGainsTo(_, _, _)
\* the sum of (r - threshold) over the first k returns r above the threshold
RefGainsTo(returns, threshold, k) ==
    IF k = 0 THEN Zero
    ELSE RAdd(RefGainsTo(returns, threshold, k - 1),
              IF RLt(threshold, returns[k]) THEN RSub(returns[k], threshold) ELSE Zero)

RECURSIVE RefLossesTo(_, _, _)
\* the sum of (threshold - r) over the first k returns r at or below the threshold
RefLossesTo(returns, threshold, k) ==
    IF k = 0 THEN Zero
    ELSE RAdd(RefLossesTo(returns, threshold, k - 1),
              IF RLeq(returns[k], threshold) THEN RSub(threshold, returns[k]) ELSE Zero)

\* C14: calculate_omega_ratio(returns, threshold) is the sum of the gains above
\* the threshold divided by the sum of the losses at or below it, +inf when the
\* loss sum is 0 (an empty series included); for [0.05, 0.07, 0.03, -0.02, 0.04]
\* and threshold 0.02 it is 2.75.
C14_OmegaRatio ==
    IsCall("calculations.calculate_omega_ratio") =>
        LET returns == metCall[1].returns
            threshold == metCall[1].threshold
            gains == RefGainsTo(returns, threshold, Len(returns))
            losses == RefLossesTo(returns, threshold, Len(returns))
        IN /\ metResult[1] = IF losses = Zero THEN PosInf ELSE RDiv(gains, losses)
           /\ (returns = OmegaExample /\ threshold = Q(2, 100)) => metResult[1] = Q(275, 100)

C14_Witness ==
    /\ IsCall("calculations.calculate_omega_ratio")
    /\ metCall[1].returns = OmegaExample
    /\ metCall[1].threshold = Q(2, 100)
    /\ metResult[1] = Q(11, 4)

\* C15: both calculate_var implementations return the same signed value for the
\* same series and confidence level, and for [-0.02, -0.01, 0.0, 0.01, 0.03] at
\* confidence 0.95 that value is -0.02.
C15_VaRImplementationsAgree ==
    IsRiskCall =>
        /\ metResult[1].var = scripts_calculate_var(metCall[1].returns, metCall[1].confidence_level)
        /\ metResult[1].var
               = calculations_calculate_var(metCall[1].returns, metCall[1].confidence_level)
        /\ (metCall[1].returns = VarExample /\ metCall[1].confidence_level = Q(95, 100))
               => metResult[1].var = Q(-2, 100)

\* C16: for a non-empty return series without NaN and a confidence level in
\* (0, 1), calculate_cvar is a number (not NaN): the mean of the returns at or
\* below the value calculate_var returns, in both implementations.
C16_CVaRDefined ==
    (/\ IsRiskCall
     /\ Len(metCall[1].returns) > 0
     /\ ~AnyNaN(metCall[1].returns)
     /\ RLt(Zero, metCall[1].confidence_level)
     /\ RLt(metCall[1].confidence_level, Unit)) =>
        /\ ~IsNaN(metResult[1].cvar)
        /\ metResult[1].cvar
               = Mean(AtOrBelow(metCall[1].returns, metResult[1].var, Len(metCall[1].returns)))

\* the running peak max_{s <= t} v_s
RefPeak(v, t) == CHOOSE m \in {v[s] : s \in 1..t} : \A s \in 1..t : RLeq(v[s], m)

\* (v_t - peak_t) / peak_t
RefDecline(v, t) == RDiv(RSub(v[t], RefPeak(v, t)), RefPeak(v, t))

\* C17: calculate_max_drawdown on portfolio values v returns the minimum over t
\* of (v_t - max_{s<=t} v_s) / max_{s<=t} v_s; for [100, 105, 90, 95, 110] this
\* is (90 - 105) / 105.
C17_ValuesMaxDrawdown ==
    (/\ IsCall("calculations.calculate_max_drawdown")
     /\ Len(metCall[1].portfolio_values) > 0
     /\ ~AnyNaN(metCall[1].portfolio_values)) =>
        LET v == metCall[1].portfolio_values
        IN /\ \E t \in 1..Len(v) : metResult[1] = RefDecline(v, t)
           /\ \A t \in 1..Len(v) : RLeq(metResult[1], RefDecline(v, t))
           /\ v = ValuesExample => metResult[1] = RDiv(Q(90 - 105, 1), Q(105, 1))

C17_Witness ==
    /\ IsCall("calculations.calculate_max_drawdown")
    /\ metCall[1].portfolio_values = ValuesExample
    /\ metResult[1] = Q(-1, 7)

\* C18: calculate_daily_returns on a price table with T rows returns exactly the
\* T - 1 rows t = 2..T, without NaN, also when the prices contain NaN anywhere;
\* for prices without NaN the entries are (p_t - p_{t-1}) / p_{t-1}.
C18_DailyReturnsRows ==
    IsCall("scripts.calculate_daily_returns") =>
        LET data == metCall[1].data
            result == metResult[1]
        IN /\ Len(result) = Len(data) - 1
           /\ \A i \in 1..Len(result) :
                  /\ result[i].label = i + 1
                  /\ ~AnyNaN(result[i].values)
           /\ ~AnyNaNMatrix(data) =>
                  \A i \in 1..Len(result) : \A k \in 1..Len(data[1]) :
                      result[i].values[k]
                          = RDiv(RSub(data[i + 1][k], data[i][k]), data[i][k])

\* C19: calculate_sharpe_ratio called with (portfolio_return,
\* portfolio_volatility, risk_free_rate) returns (portfolio_return -
\* risk_free_rate) / portfolio_volatility.
C19_SharpeOfThreeNumbers ==
    (IsCall("calculations.calculate_sharpe_ratio") /\ Len(metCall[1].args) = 3) =>
        /\ metResult[1].kind = "value"
        /\ metResult[1].value
               = RDiv(RSub(metCall[1].args[1], metCall[1].args[3]), metCall[1].args[2])

(***************************************************************************)
(* Further claims about the simulations.                                   *)
(***************************************************************************)
\* a trial of the given mode has run in the call in progress or finished
TrialDone(mode) ==
    /\ simCall # None
    /\ simCall[1].mode = mode
    /\ simPc \in {"loop", "returned"}
    /\ simI > 0

RECURSIVE RefValueAt(_, _, _)
\* initial_portfolio * product over the days s <= t of (1 + R_s), R_s the mean
\* of the returns drawn for day s over all assets
RefValueAt(initial_portfolio, draws, t) ==
    IF t = 0 THEN initial_portfolio
    ELSE RMul(RefValueAt(initial_portfolio, draws, t - 1), RAdd(Unit, Mean(draws[t])))

\* C11: in path mode the value of a trial on day t is initial_portfolio times the
\* product over s <= t of (1 + R_s), R_s aggregated over the returns drawn for all
\* assets, and it is the value path monte_carlo_with_metrics builds from the same
\* draws.
C11_PathFromAllAssets ==
    (TrialDone("path") /\ ~AnyNaNMatrix(simDraws)) =>
        /\ \A t \in 1..simCall[1].time_horizon :
               simResults[simI][t] = RefValueAt(simCall[1].initial_portfolio, simDraws, t)
        /\ simResults[simI] = with_metrics_portfolio_values(simCall[1], simDraws)

\* C12: in every random-allocation trial the weight vector has one non-negative
\* entry per asset and sums to 1, whatever the uniform draws are (0 included).
C12_WeightsNormalized ==
    TrialDone("random_allocation") =>
        /\ Len(simWeights) = Len(simCall[1].returns)
        /\ \A k \in 1..Len(simWeights) : RLeq(Zero, simWeights[k])
        /\ VecSum(simWeights) = Unit

\* C13: when the sample covariance of the input returns is singular or contains
\* NaN, the path simulations do not fail: every trial draws numbers (from a
\* fallback distribution) and the call returns N trials.
C13_DegenerateCovarianceHandled ==
    (/\ simCall # None
     /\ simCall[1].mode \in {"path", "with_metrics"}
     /\ \/ AnyNaNMatrix(sample_cov(simCall[1].returns))
        \/ \E k \in 1..Len(simCall[1].returns[1]) : sample_cov(simCall[1].returns)[k][k] = Zero) =>
        /\ simPc # "raised"
        /\ simI > 0 => ~AnyNaNMatrix(simDraws)
        /\ simPc = "returned" => Len(simReturned[1]) = simCall[1].num_simulations

\* C20: a Sharpe ratio computed at volatility 0 is 0, in the random-allocation
\* simulator as in the metrics library (used by monte_carlo_with_metrics).
C20_ZeroVolatilityGuarded ==
    /\ TrialDone("random_allocation") =>
           \A c \in simWritten : simResults[c][1] = Zero => simResults[c][3] = Zero
    /\ TrialDone("with_metrics") =>
           (SeriesStd(with_metrics_portfolio_returns(simDraws)) = Zero
                => simResults[simI].sharpe_ratio = Zero)

(***************************************************************************)
(* Further claims about the metrics functions.                             *)
(***************************************************************************)
\* the series is empty or holds nothing but NaN
EmptyOrAllNaN(v) == \A i \in 1..Len(v) : IsNaN(v[i])

\* C21: for an empty input and for an input that is entirely NaN,
\* calculate_max_drawdown returns 0: it neither raises nor returns NaN, in the
\* returns-based and in the values-based implementation.
C21_DrawdownOfNothingIsZero ==
    /\ (IsCall("scripts.calculate_max_drawdown") /\ EmptyOrAllNaN(metCall[1].returns)) =>
           (metResult[1].kind = "value" /\ metResult[1].value = Zero)
    /\ (IsCall("calculations.calculate_max_drawdown")
        /\ EmptyOrAllNaN(metCall[1].portfolio_values)) => metResult[1] = Zero

\* the caller's objects as they were passed to the call
InputsPassed ==
    LET call == metCall[1]
    IN CASE call.fn \in {"scripts.calculate_max_drawdown", "scripts.calculate_var_cvar",
                         "calculations.calculate_var_cvar",
                         "calculations.calculate_omega_ratio"} -> call.returns
         [] call.fn = "calculations.calculate_max_drawdown" -> call.portfolio_values
         [] call.fn = "scripts.calculate_daily_returns" -> call.data
         [] call.fn = "calculations.calculate_sharpe_ratio" -> call.args
         [] call.fn = "scripts.stress_test_portfolio" ->
                <<call.portfolio_weights, call.asset_returns>>

\* C22: every metrics function is pure: after a call the caller's input is
\* what it was before the call, and nothing but the return value is produced
\* (nothing is written to standard output).
C22_MetricsArePure ==
    metCall # None =>
        /\ metAfter = Some(InputsPassed)
        /\ metPrinted = << >>

\* a step of the random-allocation loop: trial simI + 1 runs
RandomAllocationStep ==
    /\ simPc = "loop"
    /\ simCall[1].mode = "random_allocation"
    /\ simI' = simI + 1

\* C27: the trials of the random-allocation mode are independent: trial i
\* writes column i only, the expected returns and the covariance are what the
\* caller passed, the shock does not change the volatility, and the triple of a
\* trial is determined by the call's inputs and the trial's own draws.
C27_TrialsIndependent ==
    [][RandomAllocationStep =>
          /\ simCall' = simCall
          /\ \A c \in 1..Len(simResults) : c # simI + 1 => simResults'[c] = simResults[c]
          /\ simResults'[simI + 1][1]
                 = RSqrt(Dot(simWeights', MatVec(simCall[1].covariance_matrix, simWeights')))
          /\ simResults'[simI + 1]
                 = random_allocation_trial(simCall[1], simDraws'[1], simDraws'[2])]_vars

C27_Witness ==
    /\ TrialDone("random_allocation")
    /\ simCall[1].shock_factor # None
    /\ simI = 2
    /\ simWritten = {1, 2}
    /\ simResults[1][2] # simResults[2][2]
    /\ simResults[1][1] = simResults[2][1]
    /\ IsFinite(simResults[1][1])

(***************************************************************************)
(* Claims about src/data/fetch_data.py                                      *)
(***************************************************************************)
FetchDone(fn) == fetchLast # None /\ fetchLast[1].fn = fn

TakesAssetClass ==
    /\ fetchLast # None
    /\ fetchLast[1].fn \in {"get_historical_data_for_asset_class",
                            "get_cached_historical_data",
                            "get_realtime_data_for_asset_class"}

SymbolSet(symbols) == {symbols[i] : i \in 1..Len(symbols)}

\* C24: every fetch operation that takes an asset class ends in an error for an
\* asset class outside the supported list, without a provider call and without
\* a cache entry for it.
C24_UnknownAssetClassRejected ==
    (TakesAssetClass /\ fetchLast[1].asset_type \notin {"stocks", "indices", "forex", "crypto"})
        => /\ fetchLast[1].result.kind = "raised"
           /\ fetchLast[1].result.provider_calls = 0
           /\ \A entry \in fetchCache : entry.key[1] # fetchLast[1].asset_type

CachedFetchStep ==
    /\ fetchCount' = fetchCount + 1
    /\ fetchLast'[1].fn = "get_cached_historical_data"

\* C25: a cached fetch whose asset class, dates and set of symbols equal those of
\* a stored table returns that table without a provider call, and a cached fetch
\* returns no table that was fetched for other arguments.
C25_CacheKeyedBySortedSymbols ==
    [][(CachedFetchStep /\ fetchLast'[1].result.kind = "returned")
        => /\ \A entry \in fetchCache :
                (/\ entry.value # None
                 /\ entry.key[1] = fetchLast'[1].asset_type
                 /\ SymbolSet(entry.key[2]) = SymbolSet(fetchLast'[1].symbols)
                 /\ entry.key[3] = fetchLast'[1].start_date
                 /\ entry.key[4] = fetchLast'[1].end_date)
                    => /\ fetchLast'[1].result.provider_calls = 0
                       /\ SymbolSet(fetchLast'[1].result.value[1].tickers)
                              = SymbolSet(entry.value[1].tickers)
           /\ fetchLast'[1].result.value # None
                => /\ SymbolSet(fetchLast'[1].result.value[1].tickers)
                          = SymbolSet(fetchLast'[1].symbols)
                   /\ fetchLast'[1].result.value[1].start = fetchLast'[1].start_date
                   /\ fetchLast'[1].result.value[1].end = fetchLast'[1].end_date]_vars

\* C26: both real-time fetches return, for every requested symbol, an entry with
\* a 'price' and a 'timestamp', also when the provider failed for that symbol.
C26_RealtimeEntryPerSymbol ==
    (FetchDone("get_realtime_data_for_asset_class") \/ FetchDone("get_batch_realtime_data"))
        => \A symbol \in SymbolSet(fetchLast[1].symbols) :
            /\ symbol \in DOMAIN fetchLast[1].result.value
            /\ {"price", "timestamp"} \subseteq DOMAIN fetchLast[1].result.value[symbol]

\* C30: a provider fetch that failed leaves no cache entry, the failure reaches
\* the caller, and a cached call that returns made a provider call or returns a table.
C30_FailedFetchNotCached ==
    /\ \A entry \in fetchCache : entry.value # None
    /\ FetchDone("get_cached_historical_data")
        => \/ fetchLast[1].result.kind = "raised"
           \/ fetchLast[1].result.value # None

(***************************************************************************)
(* Claims about src/simulations/real_data_monte_carlo.py                    *)
(***************************************************************************)
\* C28: run_monte_carlo_with_visualization prints its stages in the order fetch,
\* simulation, visualization, and when the returns were made from the fetched
\* table and monte_carlo_with_metrics returned, the plot is called with the
\* metrics table of that simulation.
C28_PipelineReachesVisualization ==
    /\ \A i \in 1..Len(pipePrinted) :
        /\ pipePrinted[i] = "Running Monte Carlo simulations with metrics..."
            => pipePrinted[1] = "Fetching historical data..." /\ i > 1
        /\ pipePrinted[i] = "Visualizing results..."
            => i > 1 /\ pipePrinted[i - 1] = "Running Monte Carlo simulations with metrics..."
    /\ (pipePc = "ended" /\ pipeReturns # None /\ pipeSim # None /\ pipeSim[1].kind = "returned")
        => /\ pipePlot # None
           /\ pipePlot[1].metrics_df = pipeSim[1].value[1]

(***************************************************************************)
(* Claims about the default bounds of scripts/optimizer.py                  *)
(***************************************************************************)
WithinBounds(x, bounds) ==
    \A i \in 1..Len(x) : RLeq(bounds[i][1], x[i]) /\ RLeq(x[i], bounds[i][2])

DefaultBoundsCall ==
    /\ optCall # None
    /\ optCall[1].variant = "optimizer"
    /\ optCall[1].bounds = None

\* C29: under the default bounds of scripts/optimizer.py a point that sums to 1
\* within the bounds exists exactly for 4 to 20 assets, the equal weights lie
\* within the bounds for exactly those numbers of assets, and for any other
\* number of assets the call returns no weights: once over, it has raised.
C29_DefaultBoundsFeasibleRange ==
    DefaultBoundsCall
        => LET n == Len(optCall[1].annualized_returns)
               bounds == effective_bounds(optCall[1])
           IN /\ (\E x \in Candidates(n) : Feasible(x, bounds)) <=> (4 <= n /\ n <= 20)
              /\ WithinBounds(EqualWeights(n), bounds) <=> (4 <= n /\ n <= 20)
              /\ ~(4 <= n /\ n <= 20)
                    => /\ optPc # "returned"
                       /\ optResult = None
                       /\ solverOut # None => optPc = "raised" /\ optError = "ValueError"

\* a call with 21 assets and default bounds went through the solver and raised
C29_Witness ==
    /\ DefaultBoundsCall
    /\ Len(optCall[1].annualized_returns) = 21
    /\ solverOut # None
    /\ optPc = "raised"

====
